---- MODULE Spec2Model ----
(***************************************************************************)
(* Model of the answer pipeline of predict.py: Pipeline.run, the two      *)
(* worker pools of _process_parallel_smart, _process_single_question,     *)
(* answer and the dispatcher _call_llm_with_fallback over the two backend *)
(* tiers ("small" = Fast, "large" = Quality).                             *)
(*                                                                         *)
(* Atomicity: a step of a worker is one blocking operation (a backend     *)
(* call or a quota-window wait) together with the code that follows it up *)
(* to the next blocking operation.                                         *)
(***************************************************************************)
EXTENDS Integers, Sequences, FiniteSets, TLC

\* Number of questions of the input batch (ids 1..NumQuestions, distinct).
NumQuestions == 2

\* Number of choices of every question: letters A..chr(64 + NumChoices).
NumChoices == 3

Tiers == {"small", "large"}

QIds == 1..NumQuestions

LetterSeq == <<"A", "B", "C", "D", "E", "F", "G", "H", "I", "J">>

\* valid = [chr(65 + i) for i in range(num_choices)]
Valid(n) == {LetterSeq[i] : i \in 1..n}

None == "None"

(***************************************************************************)
(* QuestionRouter.classify: the question types and the model choice each  *)
(* type is returned with.                                                  *)
(***************************************************************************)
QTypes == {"reading", "safety", "math", "general"}

ModelChoice(qtype) ==
    CASE qtype = "reading" -> "large"
      [] qtype = "safety"  -> "small"
      [] qtype = "math"    -> "small"
      [] OTHER             -> "large"

(***************************************************************************)
(* Outcomes of VNPTAPIClient.chat_text.  "ok" is a response text; the     *)
(* others are the exceptions it raises, told apart by the substrings the  *)
(* dispatcher searches the lower-cased message for.                        *)
(***************************************************************************)
ErrorStr(o) ==
    CASE o = "rate"          -> {"rate", "limit", "429"}       \* "Rate limit 429 for <model>"
      [] o = "server"        -> {"invalid response"}           \* "Invalid response: ..."
      [] o = "unknown"       -> {}                             \* "Timeout after 3 retries for <model>"
      [] o = "filtered"      -> {"content filtered"}           \* "Content filtered: <msg>"
      [] o = "filtered_rate" -> {"content filtered", "limit"}  \* "Content filtered: ... limit ..."
      [] OTHER               -> {}

Errors == {"rate", "server", "unknown", "filtered", "filtered_rate"}

Outcomes == {"ok"} \cup Errors

is_rate_limit(o) == ErrorStr(o) \cap {"rate", "limit", "401", "429"} # {}

is_server_error(o) == ErrorStr(o) \cap {"invalid response", "datasign", "500"} # {}

is_content_filtered(o) == "content filtered" \in ErrorStr(o)

(***************************************************************************)
(* _call_llm_with_fallback.  The dispatcher is a state machine over call  *)
(* sites and wait sites; what a step leads to is an effect record:        *)
(*   kind "call": the next backend call (site, model, attempt)            *)
(*   kind "wait": a quota-window wait (_wait_until_next_hour) at site     *)
(*   kind "ret":  return (resp, used, fb)                                 *)
(*   kind "raise": exception exc; cf = message contains "content filtered"*)
(* Call sites: "main" (168), "fb_small" (199), "retryA" (215),            *)
(* "retryB" (233), "fb_large" (248), "retryC" (263), "err_small" (286,    *)
(* 305).  Wait sites: "w_entry" (160), "wA" (211), "wB" (229), "wC" (260).*)
(***************************************************************************)
Eff(kind, site, model, attempt, skip, used, fb, exc, cf) ==
    [kind |-> kind, site |-> site, model |-> model, attempt |-> attempt,
     skip |-> skip, used |-> used, fb |-> fb, exc |-> exc, cf |-> cf]

GoCall(site, model, attempt, skip) == Eff("call", site, model, attempt, skip, None, FALSE, None, FALSE)

GoWait(site, model, skip) == Eff("wait", site, model, 0, skip, None, FALSE, None, FALSE)

Return(used, fb, skip) == Eff("ret", None, used, 0, skip, used, fb, None, FALSE)

Raise(exc, cf, skip) == Eff("raise", None, None, 0, skip, None, FALSE, exc, cf)

NoSkip == [m \in Tiers |-> FALSE]

\* The tier a call site sends its request to.
SiteTier(site, model) ==
    IF site = "main" THEN model
    ELSE IF site = "fb_large" THEN "large"
    ELSE "small"

\* line 155: the preferred tier is known to be limited; switch to small directly.
DirectSwitch(pref, allow, skip, pq) == pref = "large" /\ allow

\* lines 151-161: entry of the dispatcher.
Entry(pref, allow, skip, pq) ==
    IF skip[pref]
    THEN IF DirectSwitch(pref, allow, skip, pq)
         THEN GoCall("main", "small", 0, skip)
         ELSE IF pref = "small" /\ skip["large"]
              THEN GoWait("w_entry", pref, skip)
              ELSE GoCall("main", pref, 0, skip)
    ELSE GoCall("main", pref, 0, skip)

\* line 180: return resp, model, model != preferred_model
MainReturn(pref, model, skip) == Return(model, model # pref, [skip EXCEPT ![model] = FALSE])

\* line 195: guard of the large -> small fallback after a rate limit.
LargeMayBorrowSmall(allow, skip, pq) == allow /\ ~skip["small"]

\* The guard of line 244 without its test of the pending count.
SmallMayBorrowLarge_NoQueueCheck(allow, skip, pq) == allow /\ ~skip["large"]

\* line 244: guard of the small -> large fallback after a rate limit.
SmallMayBorrowLarge(allow, skip, pq) == allow /\ pq["large"] = 0 /\ ~skip["large"]

\* The rate-limit branch without line 193: the limited tier is not marked.
OnRateLimit_NoMark(allow, model, skip, pq) ==
    IF model = "large" /\ LargeMayBorrowSmall(allow, skip, pq)
    THEN GoCall("fb_small", model, 0, skip)
    ELSE IF model = "large"
         THEN GoWait("wB", model, skip)
         ELSE IF SmallMayBorrowLarge(allow, skip, pq)
              THEN GoCall("fb_large", model, 0, skip)
              ELSE Raise("RateLimitError", FALSE, skip)

\* lines 191-273: the rate-limit branch of the main call's handler.
OnRateLimit(allow, model, skip, pq) ==
    LET skip1 == [skip EXCEPT ![model] = TRUE]
    IN  IF model = "large" /\ LargeMayBorrowSmall(allow, skip1, pq)
        THEN GoCall("fb_small", model, 0, skip1)
        ELSE IF model = "large"
             THEN GoWait("wB", model, skip1)
             ELSE IF SmallMayBorrowLarge(allow, skip1, pq)
                  THEN GoCall("fb_large", model, 0, skip1)
                  ELSE Raise("RateLimitError", FALSE, skip1)

\* lines 284-295 and 303-314: retries are used up.
OnRetriesExhausted(allow, model, skip, pq) ==
    IF model = "large" /\ allow
    THEN GoCall("err_small", model, 0, skip)
    ELSE Raise("RateLimitError", FALSE, skip)

\* len(retry_delays): server errors are retried while attempt < 2.
ServerRetries == 2

\* unknown errors are retried while attempt < 1.
UnknownRetries == 1

\* The main call's handler with one more retry of a server error than retry_delays has.
AfterMain_OneMoreRetry(pref, allow, model, attempt, o, skip, pq) ==
    IF o = "ok" THEN MainReturn(pref, model, skip)
    ELSE IF is_content_filtered(o) THEN Raise("ContentFiltered", TRUE, skip)
    ELSE IF is_rate_limit(o) THEN OnRateLimit(allow, model, skip, pq)
    ELSE IF is_server_error(o)
         THEN IF attempt < ServerRetries + 1
              THEN GoCall("main", model, attempt + 1, skip)
              ELSE OnRetriesExhausted(allow, model, skip, pq)
         ELSE IF attempt < UnknownRetries
              THEN GoCall("main", model, attempt + 1, skip)
              ELSE OnRetriesExhausted(allow, model, skip, pq)

\* lines 166-316: the main call (site "main") returned outcome o.
AfterMain(pref, allow, model, attempt, o, skip, pq) ==
    IF o = "ok" THEN MainReturn(pref, model, skip)
    ELSE IF is_content_filtered(o) THEN Raise("ContentFiltered", TRUE, skip)
    ELSE IF is_rate_limit(o) THEN OnRateLimit(allow, model, skip, pq)
    ELSE IF is_server_error(o)
         THEN IF attempt < ServerRetries
              THEN GoCall("main", model, attempt + 1, skip)
              ELSE OnRetriesExhausted(allow, model, skip, pq)
         ELSE IF attempt < UnknownRetries
              THEN GoCall("main", model, attempt + 1, skip)
              ELSE OnRetriesExhausted(allow, model, skip, pq)

\* lines 198-224: the small fallback of a rate-limited large call returned o.
AfterFbSmall(o, skip) ==
    IF o = "ok" THEN Return("small", TRUE, skip)
    ELSE IF is_rate_limit(o)
         THEN GoWait("wA", "large", [skip EXCEPT !["small"] = TRUE])
         ELSE Raise("RateLimitError", is_content_filtered(o), skip)

\* lines 247-272: the large fallback of a rate-limited small call returned o.
AfterFbLarge(o, skip) ==
    IF o = "ok" THEN Return("large", TRUE, skip)
    ELSE IF is_rate_limit(o)
         THEN GoWait("wC", "small", [skip EXCEPT !["large"] = TRUE])
         ELSE Raise("RateLimitError", is_content_filtered(o), skip)

\* lines 214-223, 232-241, 262-271: the single retry on small after a wait.
AfterRetry(site, o, skip) ==
    IF o = "ok" THEN Return("small", TRUE, skip)
    ELSE IF site = "retryB"
         THEN Raise("LargeModelRateLimited", is_content_filtered(o), skip)
         ELSE Raise("RateLimitError", is_content_filtered(o), skip)

\* lines 285-294, 304-313: small after large used up its retries.
AfterErrSmall(o, skip) ==
    IF o = "ok" THEN Return("small", TRUE, skip)
    ELSE Raise("LargeModelRateLimited", FALSE, skip)

\* The handler of a backend call that returned outcome o at a call site.
AfterCall(site, pref, allow, model, attempt, o, skip, pq) ==
    CASE site = "main"      -> AfterMain(pref, allow, model, attempt, o, skip, pq)
      [] site = "fb_small"  -> AfterFbSmall(o, skip)
      [] site = "fb_large"  -> AfterFbLarge(o, skip)
      [] site = "err_small" -> AfterErrSmall(o, skip)
      [] OTHER              -> AfterRetry(site, o, skip)

\* lines 160-161, 211-212, 229-230, 260-261: a wait ended; _wait_until_next_hour
\* (337) and its caller both clear the flags, then the caller goes on.
AfterWait(site, model) ==
    CASE site = "w_entry" -> GoCall("main", model, 0, NoSkip)
      [] site = "wA"      -> GoCall("retryA", model, 0, NoSkip)
      [] site = "wB"      -> GoCall("retryB", model, 0, NoSkip)
      [] OTHER            -> GoCall("retryC", model, 0, NoSkip)

(***************************************************************************)
(* State.                                                                  *)
(***************************************************************************)
VARIABLES
    questions,       \* the input batch: qid -> [qtype, cannot, safe_idx] (cannot: letter of the
                     \* "cannot answer" choice; safe_idx: letter of the choice meta["safe_idx"] names)
    skip_model,      \* self.skip_model: tier -> known to be rate limited
    pending_queues,  \* self.pending_queues: tier -> number of pending questions
    answer_cache,    \* self.answer_cache: qid -> entry (NoEntry: no entry)
    disk_cache,      \* the "answers" map of answer_cache_<version>.json
    logs,            \* self.logs
    task,            \* per question: the future of a pool round, or answer() called by run()
    pool,            \* per tier: the _process_parallel_smart call of process_<tier>_queue
    sub_results,     \* small_results / large_results of run()
    sub_remaining,   \* small_remaining / large_remaining of run()
    pending,         \* pending_small / pending_large of run()
    results,         \* results of run(): qid -> letter or None
    retry,           \* the reconciliation loop of run(): needs_retry_qids, position, old_answer
    final_results,   \* final_results of run()
    mpc,             \* position of the main thread in run()
    hist,            \* history of the dispatch observed by DispatchSpec (unused by run())
    old_store,       \* the cache file of the prior version, read by import_from_cache
    cache_lock,      \* self._cache_lock: "free" or "held"
    snapshot,        \* cache_copy of the _save_answer_cache call that holds the lock
    cache_op,        \* the cache operation that completed last (None: none yet)
    extract,         \* one call of _extract_answer: its arguments and its result
    frame,           \* the local variables of the answer() call observed by AnswerSpec
    route,           \* the calls of QuestionRouter.classify observed: arguments and results
    client,          \* VNPTAPIClient.chat: per question, the timed-out requests of its call in flight
    persist          \* the cache and its file as entry counts, and where the threads writing them are

vars == <<questions, skip_model, pending_queues, answer_cache, disk_cache, logs,
          task, pool, sub_results, sub_remaining, pending, results, retry, final_results, mpc, hist,
          old_store, cache_lock, snapshot, cache_op, extract, frame,
          route, client, persist>>

\* The variables only the cache operations interleaved by CacheSpec write.
cache_aux == <<old_store, cache_lock, snapshot, cache_op>>

\* The variables only the specifications of single operations write.
answer_aux == <<extract, frame, route, client, persist>>

\* Pipeline.__init__: small_workers = 50, large_workers = 30.
small_workers == 50

large_workers == 30

Workers(m) == IF m = "small" THEN small_workers ELSE large_workers

\* The letter of the entries the cache holds when the run starts.
PreCached == "B"

NoResults == [q \in QIds |-> None]

\* History of one dispatch: its backend calls and waits in order, the flags at its
\* entry, and whether another worker wrote the flags while it ran.
NoHist == [events |-> <<>>, entry_skip |-> NoSkip, intf |-> FALSE]

NoRet == [kind |-> None, used |-> None, fb |-> FALSE, exc |-> None, cf |-> FALSE]

IdleTask ==
    [pc |-> "idle", by |-> None, di |-> 0, votes |-> <<>>, fb |-> FALSE,
     pref |-> None, allow |-> TRUE, model |-> None, attempt |-> 0, site |-> None,
     ret |-> NoRet, called |-> FALSE,
     status |-> None, answer |-> None]

IdlePool == [pc |-> "idle", subm |-> {}, processed |-> {}, results |-> NoResults, limit |-> None]

\* A cache entry is the log entry of the question (the same object).
NoEntry ==
    [extracted_answer |-> None, needs_large_retry |-> FALSE, retried_with_large |-> FALSE,
     from_cache |-> FALSE]

\* qid in self.answer_cache
InCache(cache, q) == cache[q] # NoEntry

\* log_entry of answer() (571-584): it has no "from_cache" key, read here as FALSE.
Entry0(letter, nlr) ==
    [extracted_answer |-> letter, needs_large_retry |-> nlr, retried_with_large |-> FALSE,
     from_cache |-> FALSE]

EmptyCache == [q \in QIds |-> NoEntry]

CachedIds(cache) == {q \in QIds : InCache(cache, q)}

\* cache_version of Pipeline.__init__ (default "v10").
CacheVersion == "v10"

\* A cache file: absent, or a JSON document that is either the dictionary
\* {"version", "count", "answers"} ("new") or a bare qid -> entry dictionary ("old").
NoFile == [exists |-> FALSE, format |-> None, version |-> None, count |-> 0, answers |-> EmptyCache]

OldFormatFile(cache) ==
    [exists |-> TRUE, format |-> "old", version |-> None, count |-> 0, answers |-> cache]

\* _save_answer_cache (86-97): the document json.dump writes for cache_copy.
SavedCache(cache) ==
    [exists |-> TRUE, format |-> "new", version |-> CacheVersion,
     count |-> Cardinality(CachedIds(cache)), answers |-> cache]

\* _load_answer_cache reading only bare dictionaries.
load_answer_cache_OldFormatOnly(file) ==
    IF file.exists /\ file.format = "old" THEN file.answers ELSE EmptyCache

\* _load_answer_cache (68-84): data["answers"] of a document that has the key,
\* the document itself otherwise, {} when there is no file.
load_answer_cache(file) ==
    IF ~file.exists THEN EmptyCache
    ELSE IF file.format = "new" THEN file.answers
    ELSE file.answers

\* No call of _extract_answer is observed.
NoExtract == [text |-> <<>>, num_choices |-> 0, result |-> None]

\* log_entry of answer() with the keys the branches of lines 387-548 write.
NoLogEntry ==
    [first_answer |-> None, verification |-> FALSE, reading_votes |-> <<>>,
     reading_consensus |-> None, tiebreak_answer |-> None, single_call |-> FALSE,
     needs_large_retry |-> FALSE, extracted_answer |-> None, error |-> FALSE]

\* answer() not entered: the responses received, the letters extracted from
\* them (first_answer; answer1..answer3), the prompts dispatched, and log_entry.
NoFrame == [responses |-> <<>>, answers |-> <<>>, prompts |-> <<>>, log_entry |-> NoLogEntry]

\* No call of classify observed.
NoRoute == [question |-> [phrases |-> {}, len |-> 0], choices |-> <<>>, calls |-> <<>>]

\* No request of a backend call in flight has timed out.
NoClient == [q \in QIds |-> 0]

\* The entry counts of an empty cache with no file, and no thread at work on them.
NoPersist ==
    [mem |-> 0, disk |-> 0, snap |-> 0, holder |-> None, checking |-> 0, saving |-> 0,
     done |-> 0, qpc |-> "idle"]

\* The questions the batch is drawn from: one per handling strategy of answer().
QuestionKinds ==
    { [qtype |-> "reading", cannot |-> None, safe_idx |-> None],
      [qtype |-> "safety",  cannot |-> "B",  safe_idx |-> "B"],
      [qtype |-> "math",    cannot |-> None, safe_idx |-> None],
      [qtype |-> "general", cannot |-> None, safe_idx |-> None] }

\* The batches tried: the questions in the order reading, safety, math, general,
\* with at most one reading question.
Rank(k) ==
    CASE k.qtype = "reading" -> 1
      [] k.qtype = "safety"  -> 2
      [] k.qtype = "math"    -> 3
      [] OTHER               -> 4

Batches ==
    {b \in [QIds -> QuestionKinds] :
        \A i, j \in QIds : i < j => /\ Rank(b[i]) <= Rank(b[j])
                                    /\ b[j].qtype # "reading"}

Init ==
    /\ questions \in Batches
    /\ skip_model = NoSkip
    /\ pending_queues = [m \in Tiers |-> 0]
    /\ \E cache \in [QIds -> {NoEntry, Entry0(PreCached, FALSE)}] :
           /\ disk_cache = (IF CachedIds(cache) = {} THEN NoFile ELSE SavedCache(cache))
           /\ answer_cache = load_answer_cache(disk_cache)
    /\ logs = <<>>
    /\ task = [q \in QIds |-> IdleTask]
    /\ pool = [m \in Tiers |-> IdlePool]
    /\ sub_results = [m \in Tiers |-> NoResults]
    /\ sub_remaining = [m \in Tiers |-> {}]
    /\ pending = [m \in Tiers |-> {}]
    /\ results = NoResults
    /\ retry = [list |-> <<>>, idx |-> 0, old |-> None]
    /\ final_results = <<>>
    /\ mpc = "start"
    /\ hist = NoHist
    /\ old_store = NoFile
    /\ cache_lock = "free"
    /\ snapshot = EmptyCache
    /\ cache_op = None
    /\ extract = NoExtract
    /\ frame = NoFrame
    /\ route = NoRoute
    /\ client = NoClient
    /\ persist = NoPersist

\* _get_cached_answer returning the first letter for every cached entry.
get_cached_answer_FirstLetter(cache, q) == IF InCache(cache, q) THEN "A" ELSE None

\* _get_cached_answer: the answer of a cached entry, None when there is no entry.
get_cached_answer(cache, q) == IF InCache(cache, q) THEN cache[q].extracted_answer ELSE None

\* The queue a question is put in (run, lines 852-861).
QueueOf(q) == IF ModelChoice(questions[q].qtype) = "large" THEN "large" ELSE "small"

\* preferred_model of the di-th dispatch of answer() for a question type.
PrefOf(qtype, di) ==
    IF qtype = "reading"
    THEN (IF di <= 2 THEN "small" ELSE "large")
    ELSE ModelChoice(qtype)

InDispatch(t) == t.pc \in {"call", "wait"}

Running(t) == t.pc \in {"call", "wait", "returned"}

\* _call_llm_with_fallback is entered: the task at the dispatcher's first blocking operation.
EnterDispatch(t, di, pref, allow, skip, pq) ==
    LET eff == Entry(pref, allow, skip, pq)
    IN  [t EXCEPT !.pc = eff.kind, !.di = di, !.pref = pref, !.allow = allow,
                  !.model = eff.model, !.attempt = 0, !.site = eff.site,
                  !.ret = NoRet]

\* answer() calls _call_llm_with_fallback; allow_fallback keeps its default, True.
StartDispatch(t, di, pref, skip, pq) == EnterDispatch(t, di, pref, TRUE, skip, pq)

\* answer(), lines 341-379: a cached answer is returned at once; otherwise the
\* question is classified and the first dispatch starts.
AnswerStart(t, q, qtype, cache, skip, pq) ==
    IF get_cached_answer(cache, q) # None
    THEN [t EXCEPT !.pc = "done", !.status = "success", !.answer = get_cached_answer(cache, q)]
    ELSE StartDispatch(t, 1, PrefOf(qtype, 1), skip, pq)

\* The task after a step of its dispatch with effect eff.
ApplyEff(t, eff) ==
    CASE eff.kind = "call" ->
           [t EXCEPT !.pc = "call", !.site = eff.site, !.model = eff.model,
                     !.attempt = eff.attempt]
      [] eff.kind = "wait" ->
           [t EXCEPT !.pc = "wait", !.site = eff.site, !.model = eff.model]
      [] OTHER ->
           [t EXCEPT !.pc = "returned",
                     !.ret = [kind |-> eff.kind, used |-> eff.used, fb |-> eff.fb,
                              exc |-> eff.exc, cf |-> eff.cf]]

(***************************************************************************)
(* run(): the two queue threads and the pool rounds.                       *)
(***************************************************************************)
\* The large queue thread held back while the small queue has questions pending: its
\* futures are submitted but their results are not taken.
StartedPools_Sequential(pend) ==
    [m \in Tiers |-> IF pend[m] = {} THEN [IdlePool EXCEPT !.pc = "fin"]
                     ELSE IF m = "large" /\ pend["small"] # {}
                     THEN [IdlePool EXCEPT !.pc = "idle", !.subm = pend[m]]
                     ELSE [IdlePool EXCEPT !.pc = "collect", !.subm = pend[m]]]

\* process_small_queue / process_large_queue start (888-894, 899-905): a thread whose
\* pending list is empty does nothing; otherwise every pending question is submitted.
StartedPools(pend) ==
    [m \in Tiers |-> IF pend[m] = {} THEN [IdlePool EXCEPT !.pc = "fin"]
                     ELSE [IdlePool EXCEPT !.pc = "collect", !.subm = pend[m]]]

StartedTasks(pend) ==
    [q \in QIds |-> IF q \in pend[QueueOf(q)]
                    THEN [IdleTask EXCEPT !.pc = "queued", !.by = "pool"]
                    ELSE task[q]]

\* run, lines 844-921: split the uncached questions into the two queues and start both threads.
RunStart ==
    /\ mpc = "start"
    /\ LET pend == [m \in Tiers |-> {q \in QIds : ~InCache(answer_cache, q) /\ QueueOf(q) = m}]
       IN  /\ pending' = pend
           /\ pending_queues' = [m \in Tiers |-> Cardinality(pend[m])]
           /\ pool' = StartedPools(pend)
           /\ task' = StartedTasks(pend)
    /\ mpc' = "join"
    /\ UNCHANGED <<questions, hist, cache_aux, answer_aux, skip_model, answer_cache, disk_cache, logs,
                   sub_results, sub_remaining, results, retry, final_results>>

Min(S) == CHOOSE x \in S : \A y \in S : x <= y

\* A worker of the executor takes the next queued future and runs
\* _process_single_question (688-698) up to the first blocking operation of answer().
TaskStart(q) ==
    LET m == QueueOf(q)
        queued == {r \in pool[m].subm : task[r].pc = "queued"}
        active == {r \in pool[m].subm : Running(task[r])}
    IN  /\ task[q].pc = "queued"
        /\ task[q].by = "pool"
        /\ q = Min(queued)
        /\ Cardinality(active) < Workers(m)
        /\ task' = [task EXCEPT ![q] =
                      IF InCache(answer_cache, q)
                      THEN [@ EXCEPT !.pc = "done", !.status = "cached",
                                     !.answer = get_cached_answer(answer_cache, q)]
                      ELSE AnswerStart(@, q, questions[q].qtype, answer_cache,
                                       skip_model, pending_queues)]
        /\ UNCHANGED <<questions, hist, cache_aux, answer_aux, skip_model, pending_queues, answer_cache, disk_cache,
                       logs, pool, sub_results, sub_remaining, pending, results, retry,
                       final_results, mpc>>

\* A backend call of the dispatcher returns with outcome o and its handler runs.
Call(q, o) ==
    /\ task[q].pc = "call"
    /\ LET t == task[q]
           eff == AfterCall(t.site, t.pref, t.allow, t.model, t.attempt, o,
                            skip_model, pending_queues)
       IN  /\ skip_model' = eff.skip
           /\ task' = [task EXCEPT ![q] = [ApplyEff(t, eff) EXCEPT !.called = TRUE]]
    /\ UNCHANGED <<questions, pending_queues, answer_cache, disk_cache, logs, pool,
                   sub_results, sub_remaining, pending, results, retry, final_results, mpc>>

\* A quota-window wait of the dispatcher ends (_wait_until_next_hour, 318-339).
Waited(q) ==
    /\ task[q].pc = "wait"
    /\ LET t == task[q]
           eff == AfterWait(t.site, t.model)
       IN  /\ skip_model' = eff.skip
           /\ task' = [task EXCEPT ![q] = ApplyEff(t, eff)]
    /\ UNCHANGED <<questions, pending_queues, answer_cache, disk_cache, logs, pool,
                   sub_results, sub_remaining, pending, results, retry, final_results, mpc>>

CallStep(q) == (\E o \in Outcomes : Call(q, o)) /\ UNCHANGED <<hist, cache_aux, answer_aux>>

WaitEnd(q) == Waited(q) /\ UNCHANGED <<hist, cache_aux, answer_aux>>

(***************************************************************************)
(* answer(): what follows a dispatch.                                      *)
(***************************************************************************)
\* Lines 476-488 taking the first vote as the winner whenever two votes agree.
Majority_FirstVote(votes) ==
    IF \E i, j \in 1..Len(votes) : i # j /\ votes[i] = votes[j] THEN votes[1] ELSE None

\* lines 476-488: the letter with at least two of the votes, None if there is none.
Majority(votes) ==
    LET cnt(l) == Cardinality({i \in 1..Len(votes) : votes[i] = l})
        winners == {l \in {votes[i] : i \in 1..Len(votes)} : cnt(l) >= 2}
    IN  IF winners = {} THEN None ELSE CHOOSE l \in winners : TRUE

\* "Save cache every 10 questions" (592)
SaveEvery == 10

\* lines 586-595: log, cache, periodic save; then _process_single_question returns "success".
Finish(q, answer, nlr) ==
    LET cache1 == [answer_cache EXCEPT ![q] = Entry0(answer, nlr)]
    IN  /\ logs' = Append(logs, [qid |-> q, needs_large_retry |-> nlr, retried_with_large |-> FALSE])
        /\ answer_cache' = cache1
        /\ disk_cache' = IF Cardinality(CachedIds(cache1)) % SaveEvery = 0
                         THEN SavedCache(cache1) ELSE disk_cache
        /\ task' = [task EXCEPT ![q] = [IdleTask EXCEPT !.pc = "done", !.by = task[q].by,
                                                        !.called = task[q].called,
                                                        !.status = "success", !.answer = answer]]
        /\ UNCHANGED skip_model

\* answer() goes on to its next dispatch.
NextDispatch(q, t) ==
    /\ task' = [task EXCEPT ![q] = StartDispatch(t, t.di + 1,
                                                 PrefOf(questions[q].qtype, t.di + 1),
                                                 skip_model, pending_queues)]
    /\ UNCHANGED <<skip_model, answer_cache, disk_cache, logs>>

\* lines 559-561 and 702-703: RateLimitError leaves answer(); status small_limited.
Propagate(q, status) ==
    /\ task' = [task EXCEPT ![q] = [IdleTask EXCEPT !.pc = "done", !.by = task[q].by,
                                                    !.called = task[q].called,
                                                    !.status = status]]
    /\ UNCHANGED <<skip_model, answer_cache, disk_cache, logs>>

\* lines 563-584: the answer chosen when a dispatch raised something else.
ErrorAnswer(q, cf) ==
    IF cf /\ questions[q].cannot # None THEN questions[q].cannot ELSE "A"

\* lines 381-595: a dispatch returned or raised; answer() goes on.  The letters
\* _extract_answer yields from the responses are chosen where answer() first uses them.
Continue(q) ==
    /\ task[q].pc = "returned"
    /\ LET t == task[q]
           r == t.ret
           qtype == questions[q].qtype
           fb1 == t.fb \/ r.fb
       IN  IF r.kind = "ret"
           THEN CASE qtype = "math" /\ t.di = 1 ->
                       NextDispatch(q, [t EXCEPT !.fb = fb1])
                  [] qtype = "reading" /\ t.di <= 2 ->
                       NextDispatch(q, [t EXCEPT !.fb = fb1])
                  [] qtype = "reading" /\ t.di = 3 ->
                       \E votes \in [1..3 -> Valid(NumChoices)] :
                           IF Majority(votes) # None
                           THEN Finish(q, Majority(votes), fb1)
                           ELSE NextDispatch(q, [t EXCEPT !.fb = fb1, !.votes = <<votes[1]>>])
                  [] OTHER ->
                       \E letter \in Valid(NumChoices) : Finish(q, letter, fb1)
           ELSE IF qtype = "reading" /\ t.di = 4
                THEN Finish(q, t.votes[1], t.fb)
                ELSE IF r.exc = "RateLimitError"
                     THEN Propagate(q, "small_limited")
                     ELSE Finish(q, ErrorAnswer(q, r.cf), FALSE)
    /\ UNCHANGED <<questions, hist, cache_aux, answer_aux, pending_queues, pool, sub_results, sub_remaining,
                   pending, results, retry, final_results, mpc>>

(***************************************************************************)
(* _process_parallel_smart (749-809).                                      *)
(***************************************************************************)
\* The round stopped by a question that ended in an error as well.
IsLimited_ErrorToo(status) == status \in {"small_limited", "large_limited", "error"}

\* lines 781-796: the statuses that stop the round.
IsLimited(status) == status \in {"small_limited", "large_limited"}

\* Line 769 moved below the status test: a limited question stays unprocessed.
Processed_KeepLimited(processed, q, status) ==
    IF status \in {"small_limited", "large_limited"} THEN processed ELSE processed \cup {q}

\* line 769: every future taken from as_completed is recorded as processed.
Processed(processed, q, status) == processed \cup {q}

\* lines 766-802: the as_completed loop takes a finished future.
Collect(m, q) ==
    /\ pool[m].pc = "collect"
    /\ q \in pool[m].subm \ pool[m].processed
    /\ task[q].pc = "done"
    /\ LET t == task[q]
           done == Processed(pool[m].processed, q, t.status)
           stop == IsLimited(t.status)
       IN  /\ pool' = [pool EXCEPT ![m] =
                        [@ EXCEPT !.processed = done,
                                  !.results = IF stop THEN @ ELSE [@ EXCEPT ![q] = t.answer],
                                  !.limit = IF stop THEN (IF t.status = "small_limited"
                                                          THEN "small" ELSE "large") ELSE @,
                                  !.pc = IF stop \/ pool[m].subm \subseteq done
                                         THEN "drain" ELSE "collect"]]
           \* f.cancel() for every future: the ones not yet started are cancelled
           /\ task' = [r \in QIds |-> IF stop /\ r \in pool[m].subm /\ task[r].pc = "queued"
                                      THEN [task[r] EXCEPT !.pc = "cancelled"] ELSE task[r]]
           \* _save_answer_cache() after a success (776) and after an error (801)
           /\ disk_cache' = IF t.status \in {"success", "error"}
                            THEN SavedCache(answer_cache) ELSE disk_cache
    /\ UNCHANGED <<questions, hist, cache_aux, answer_aux, skip_model, pending_queues, answer_cache, logs,
                   sub_results, sub_remaining, pending, results, retry, final_results, mpc>>

\* line 807: remaining = [q for q in questions if q.get("qid") not in processed_qids]
Remaining(subm, processed) == subm \ processed

\* The executor is left once the running futures have finished (761, 804-809); the
\* queue thread stores the round's outcome and the pending count (892-897, 903-908).
PoolFinish(m) ==
    /\ pool[m].pc = "drain"
    /\ \A r \in pool[m].subm : ~Running(task[r]) /\ task[r].pc # "queued"
    /\ LET rem == Remaining(pool[m].subm, pool[m].processed)
       IN  /\ sub_results' = [sub_results EXCEPT ![m] = pool[m].results]
           /\ sub_remaining' = [sub_remaining EXCEPT ![m] = rem]
           /\ pending_queues' = [pending_queues EXCEPT ![m] = Cardinality(rem)]
    /\ pool' = [pool EXCEPT ![m] = [IdlePool EXCEPT !.pc = "fin"]]
    /\ task' = [r \in QIds |-> IF r \in pool[m].subm THEN IdleTask ELSE task[r]]
    /\ UNCHANGED <<questions, hist, cache_aux, answer_aux, skip_model, answer_cache, disk_cache, logs,
                   pending, results, retry, final_results, mpc>>

\* results.update(d)
Update(res, d) == [q \in QIds |-> IF d[q] # None THEN d[q] ELSE res[q]]

\* line 958 listing every flagged log entry twice.
NeedsRetry_Twice(lg) ==
    LET sel == SelectSeq(lg, LAMBDA e : e.needs_large_retry /\ ~e.retried_with_large)
    IN  [i \in 1..(2 * Len(sel)) |-> sel[((i - 1) % Len(sel)) + 1].qid]

\* line 958: the qids of the log entries flagged needs_large_retry and not yet retried.
NeedsRetry(lg) ==
    LET sel == SelectSeq(lg, LAMBDA e : e.needs_large_retry /\ ~e.retried_with_large)
    IN  [i \in 1..Len(sel) |-> sel[i].qid]

\* lines 920-932 and 945-963: both threads joined; merge, then loop, reconcile or finish.
Merge ==
    /\ mpc = "join"
    /\ \A m \in Tiers : pool[m].pc = "fin"
    /\ results' = Update(Update(results, sub_results["small"]), sub_results["large"])
    /\ pending' = sub_remaining
    /\ pool' = [m \in Tiers |-> IdlePool]
    /\ IF \E m \in Tiers : sub_remaining[m] # {}
       THEN /\ mpc' = "wait"
            /\ UNCHANGED <<pending_queues, retry>>
       ELSE /\ pending_queues' = [m \in Tiers |-> 0]
            /\ retry' = [list |-> NeedsRetry(logs), idx |-> 1, old |-> None]
            /\ mpc' = IF NeedsRetry(logs) # <<>> THEN "retry_wait" ELSE "final"
    /\ UNCHANGED <<questions, hist, cache_aux, answer_aux, skip_model, answer_cache, disk_cache, logs, task,
                   sub_results, sub_remaining, final_results>>

\* lines 934-944: the quota-window wait of the retry loop ends; the pending sets are resubmitted.
MainWaitEnd ==
    /\ mpc = "wait"
    /\ skip_model' = NoSkip
    /\ pending_queues' = [m \in Tiers |-> Cardinality(pending[m])]
    /\ pool' = StartedPools(pending)
    /\ task' = StartedTasks(pending)
    /\ mpc' = "join"
    /\ UNCHANGED <<questions, hist, cache_aux, answer_aux, answer_cache, disk_cache, logs, sub_results,
                   sub_remaining, pending, results, retry, final_results>>

(***************************************************************************)
(* run(): the reconciliation pass (957-1003) and the output (1005-1021).   *)
(***************************************************************************)
\* line 968: the wait before the pass ends.
RetryWaitEnd ==
    /\ mpc = "retry_wait"
    /\ skip_model' = NoSkip
    /\ mpc' = "retry"
    /\ UNCHANGED <<questions, hist, cache_aux, answer_aux, pending_queues, answer_cache, disk_cache, logs, task,
                   pool, sub_results, sub_remaining, pending, results, retry, final_results>>

\* lines 973-988: the entry is removed from the cache and answer() is called again.
RetryNext ==
    /\ mpc = "retry"
    /\ retry.idx <= Len(retry.list)
    /\ LET q == retry.list[retry.idx]
       IN  /\ task[q].pc = "idle"
           /\ retry' = [retry EXCEPT !.old =
                          IF InCache(answer_cache, q) THEN get_cached_answer(answer_cache, q)
                          ELSE IF results[q] # None THEN results[q] ELSE "?"]
           /\ answer_cache' = [answer_cache EXCEPT ![q] = NoEntry]
           /\ task' = [task EXCEPT ![q] =
                         AnswerStart([IdleTask EXCEPT !.by = "run"], q, questions[q].qtype,
                                     answer_cache', skip_model, pending_queues)]
    /\ UNCHANGED <<questions, hist, cache_aux, answer_aux, skip_model, pending_queues, disk_cache, logs, pool,
                   sub_results, sub_remaining, pending, results, final_results, mpc>>

\* lines 988-1003: answer() returned or raised.
RetryCollect ==
    /\ mpc = "retry"
    /\ retry.idx <= Len(retry.list)
    /\ LET q == retry.list[retry.idx]
           t == task[q]
           n == Len(logs)
       IN  /\ t.pc = "done"
           /\ IF t.status = "success"
              THEN /\ results' = [results EXCEPT ![q] = t.answer]
                   /\ IF logs[n].qid = q
                      THEN /\ logs' = [logs EXCEPT ![n].retried_with_large = TRUE]
                           /\ answer_cache' = [answer_cache EXCEPT ![q].retried_with_large = TRUE]
                      ELSE UNCHANGED <<logs, answer_cache>>
              ELSE /\ results' = [results EXCEPT ![q] = retry.old]
                   /\ UNCHANGED <<logs, answer_cache>>
           /\ task' = [task EXCEPT ![q] = IdleTask]
           /\ retry' = [retry EXCEPT !.idx = @ + 1]
           /\ mpc' = IF retry.idx = Len(retry.list) THEN "final" ELSE "retry"
    /\ UNCHANGED <<questions, hist, cache_aux, answer_aux, skip_model, pending_queues, disk_cache, pool,
                   sub_results, sub_remaining, pending, final_results>>

\* line 1015: the answer of a question with neither a result nor a cache entry.
DefaultAnswer == "A"

\* Lines 1009-1015 skipping a question that has neither a result nor a cache entry.
FinalRecord_OmitMissing(q, res, cache) ==
    IF res[q] # None THEN <<[qid |-> q, answer |-> res[q]]>>
    ELSE IF InCache(cache, q) THEN <<[qid |-> q, answer |-> cache[q].extracted_answer]>>
    ELSE <<>>

\* lines 1009-1015: the record of one question.
FinalRecord(q, res, cache) ==
    <<[qid |-> q,
       answer |-> IF res[q] # None THEN res[q]
                  ELSE IF InCache(cache, q) THEN get_cached_answer(cache, q)
                  ELSE DefaultAnswer]>>

\* lines 1005-1015: final_results, built over the first n questions in input order.
RECURSIVE FinalResults(_, _, _)
FinalResults(n, res, cache) ==
    IF n = 0 THEN <<>>
    ELSE FinalResults(n - 1, res, cache) \o FinalRecord(n, res, cache)

\* lines 1005-1021: build the output, save the logs and the cache.
Finalize ==
    /\ mpc = "final"
    /\ final_results' = FinalResults(NumQuestions, results, answer_cache)
    /\ disk_cache' = SavedCache(answer_cache)
    /\ mpc' = "done"
    /\ UNCHANGED <<questions, hist, cache_aux, answer_aux, skip_model, pending_queues, answer_cache, logs, task,
                   pool, sub_results, sub_remaining, pending, results, retry>>

Next ==
    \/ RunStart
    \/ \E q \in QIds : TaskStart(q)
    \/ \E q \in QIds : CallStep(q)
    \/ \E q \in QIds : WaitEnd(q)
    \/ \E q \in QIds : Continue(q)
    \/ \E m \in Tiers, q \in QIds : Collect(m, q)
    \/ \E m \in Tiers : PoolFinish(m)
    \/ Merge
    \/ MainWaitEnd
    \/ RetryWaitEnd
    \/ RetryNext
    \/ RetryCollect
    \/ Finalize

Spec == Init /\ [][Next]_vars

\* The scheduler runs every thread that can take a step; every backend call and
\* every wait returns.
FairSpec == Spec /\ WF_vars(Next)

(***************************************************************************)
(* One call of _call_llm_with_fallback, for every preferred tier, every    *)
(* allow_fallback, every value of the flags and of the pending counts at   *)
(* its entry and every sequence of backend outcomes, while the other       *)
(* workers of the pools write the shared flags.                            *)
(***************************************************************************)
CallEvent(tier, o) == [kind |-> "call", tier |-> tier, out |-> o]

WaitEvent == [kind |-> "wait", tier |-> None, out |-> None]

DispatchInit ==
    /\ questions = [q \in QIds |-> [qtype |-> "general", cannot |-> None, safe_idx |-> None]]
    /\ skip_model \in [Tiers -> BOOLEAN]
    /\ pending_queues \in [Tiers -> 0..NumQuestions]
    /\ disk_cache = NoFile
    /\ answer_cache = load_answer_cache(disk_cache)
    /\ logs = <<>>
    /\ \E pref \in Tiers, allow \in BOOLEAN :
           task = [q \in QIds |-> IF q = 1
                                  THEN EnterDispatch([IdleTask EXCEPT !.by = "caller"], 1, pref,
                                                     allow, skip_model, pending_queues)
                                  ELSE IdleTask]
    /\ pool = [m \in Tiers |-> IdlePool]
    /\ sub_results = [m \in Tiers |-> NoResults]
    /\ sub_remaining = [m \in Tiers |-> {}]
    /\ pending = [m \in Tiers |-> {}]
    /\ results = NoResults
    /\ retry = [list |-> <<>>, idx |-> 0, old |-> None]
    /\ final_results = <<>>
    /\ mpc = "dispatch"
    /\ hist = [NoHist EXCEPT !.entry_skip = skip_model]
    /\ old_store = NoFile
    /\ cache_lock = "free"
    /\ snapshot = EmptyCache
    /\ cache_op = None
    /\ extract = NoExtract
    /\ frame = NoFrame
    /\ route = NoRoute
    /\ client = NoClient
    /\ persist = NoPersist

\* A backend call of the observed dispatch returns.
DispatchCall ==
    \E o \in Outcomes :
        /\ Call(1, o)
        /\ hist' = [hist EXCEPT !.events =
                       Append(@, CallEvent(SiteTier(task[1].site, task[1].model), o))]
        /\ UNCHANGED <<cache_aux, answer_aux>>

\* A quota-window wait of the observed dispatch ends.
DispatchWait ==
    /\ Waited(1)
    /\ hist' = [hist EXCEPT !.events = Append(@, WaitEvent)]
    /\ UNCHANGED <<cache_aux, answer_aux>>

\* Another worker writes self.skip_model (lines 179, 193, 208, 257: one flag;
\* 161, 212, 230, 261, 337: both cleared) while the observed dispatch is blocked.
Interfere ==
    /\ mpc = "dispatch"
    /\ InDispatch(task[1])
    /\ \E s \in [Tiers -> BOOLEAN] \ {skip_model} : skip_model' = s
    /\ hist' = [hist EXCEPT !.intf = TRUE]
    /\ UNCHANGED <<questions, pending_queues, answer_cache, disk_cache, logs, task, pool,
                   sub_results, sub_remaining, pending, results, retry, final_results, mpc,
                   cache_aux, answer_aux>>

DispatchNext ==
    \/ DispatchCall
    \/ DispatchWait
    \/ Interfere

DispatchSpec == DispatchInit /\ [][DispatchNext]_vars

(***************************************************************************)
(* Properties of run() (Spec, FairSpec).                                   *)
(***************************************************************************)
\* C1: when run() completes, final_results holds exactly one record per input
\* question, in input order and with the question's id, and a question with neither
\* a result nor a cache entry has the answer "A".
C1_OneRecordPerQuestion ==
    mpc = "done" =>
        /\ Len(final_results) = NumQuestions
        /\ \A i \in QIds :
              /\ final_results[i].qid = i
              /\ (results[i] = None /\ ~InCache(answer_cache, i))
                    => final_results[i].answer = "A"

\* C1 witness: a completed run with a question that has neither a result nor a cache entry.
C1_Witness ==
    /\ mpc = "done"
    /\ \E q \in QIds : results[q] = None /\ ~InCache(answer_cache, q)

\* C2: after _process_parallel_smart returns, every submitted question is a key of
\* the returned results or a member of the returned remaining list.
C2_NoQuestionDropped ==
    \A m \in Tiers :
        (mpc = "join" /\ pool[m].pc = "fin") =>
            \A q \in pending[m] : sub_results[m][q] # None \/ q \in sub_remaining[m]

\* The number of questions waiting to be resubmitted.
TotalPending(p) == Cardinality(p["small"] \cup p["large"])

\* A round of the deferred-retry loop that ends with questions still pending leaves
\* fewer of them than it was given.
RoundShrinksPending ==
    (mpc = "join" /\ mpc' = "wait") => TotalPending(pending') < TotalPending(pending)

\* C3: run() terminates, with one answer per input question, for every backend
\* behaviour, and every round of the deferred-retry loop shrinks the pending sets.
C3_RunTerminates ==
    /\ <>(mpc = "done" /\ Len(final_results) = NumQuestions)
    /\ [][RoundShrinksPending]_vars

\* C3 witness: the run has ended although the backend never gave a usable answer:
\* no question has a result or a cache entry.
C3_Witness ==
    /\ mpc = "done"
    /\ Len(final_results) = NumQuestions
    /\ \A q \in QIds : results[q] = None /\ ~InCache(answer_cache, q)

\* C4: while the cache holds an entry for a question no dispatch runs for it, and a
\* question found cached when it is processed is answered, without a backend call,
\* with the extracted answer of its entry.
C4_CachedNeverDispatched ==
    \A q \in QIds :
        /\ InCache(answer_cache, q) => ~Running(task[q])
        /\ task[q].status = "cached" =>
              /\ ~task[q].called
              /\ InCache(answer_cache, q)
              /\ task[q].answer = answer_cache[q].extracted_answer

\* C4 witness: a question submitted to a pool was found cached when its turn came.
C4_Witness == \E q \in QIds : task[q].status = "cached" /\ task[q].answer # "A"

\* C6: a dispatch whose preferred tier is small has a call to the large tier in
\* flight only while the large queue has no pending question.
C6_SmallBorrowsLargeOnlyWhenQueueEmpty ==
    \A q \in QIds :
        (task[q].pc = "call" /\ task[q].pref = "small"
            /\ SiteTier(task[q].site, task[q].model) = "large")
        => pending_queues["large"] = 0

\* C6 witness: a small-preferred dispatch of a pool round is calling the large tier.
C6_Witness ==
    \E q \in QIds :
        /\ task[q].pc = "call" /\ task[q].pref = "small" /\ task[q].site = "fb_large"
        /\ task[q].by = "pool"

\* C7: a dispatch whose preferred tier is large has a call to the small tier in
\* flight only while the small queue has no pending question.
C7_LargeBorrowsSmallOnlyWhenQueueEmpty ==
    \A q \in QIds :
        (task[q].pc = "call" /\ task[q].pref = "large"
            /\ SiteTier(task[q].site, task[q].model) = "small")
        => pending_queues["small"] = 0

(***************************************************************************)
(* Properties of one dispatch (DispatchSpec).                              *)
(***************************************************************************)
\* The observed dispatch has returned or raised.
Ended == mpc = "dispatch" /\ task[1].pc = "returned"

Calls(ev) == SelectSeq(ev, LAMBDA e : e.kind = "call")

NumWaits(ev) == Len(SelectSeq(ev, LAMBDA e : e.kind = "wait"))

\* The position of the last wait among the events, 0 if there is none.
LastWait(ev) ==
    IF NumWaits(ev) = 0 THEN 0
    ELSE CHOOSE i \in 1..Len(ev) :
            ev[i].kind = "wait" /\ \A j \in (i + 1)..Len(ev) : ev[j].kind # "wait"

\* A quota-exceeded signal: "Rate limit 429 for <model>".
QuotaExceeded(o) == o = "rate"

\* C5: a dispatch that returns a response from its preferred tier returns
\* fallback_used = false, on every return path (here: with no other worker writing
\* the flags meanwhile).
C5_PreferredTierNeverFallback ==
    (Ended /\ ~hist.intf /\ task[1].ret.kind = "ret" /\ task[1].ret.used = task[1].pref)
        => ~task[1].ret.fb

\* The dispatch found both tiers exhausted: both marked at its entry, or each of the
\* two tiers answered one of its calls with a quota-exceeded signal.
FoundBothExhausted ==
    \/ \A m \in Tiers : hist.entry_skip[m]
    \/ \A m \in Tiers : \E i \in 1..Len(hist.events) :
          hist.events[i].tier = m /\ QuotaExceeded(hist.events[i].out)

\* C8: a dispatch with fallback allowed that found both tiers exhausted, undisturbed
\* by other workers, has waited for the quota window and made exactly one backend
\* call after its last wait; it has not ended with a rate-limit signal without a wait.
C8_BothExhaustedWaitsAndRetriesOnce ==
    (Ended /\ ~hist.intf /\ task[1].allow /\ FoundBothExhausted)
        => /\ NumWaits(hist.events) >= 1
           /\ Len(hist.events) - LastWait(hist.events) = 1

\* Scenario C: preferred tier large, fallback allowed, no tier marked at entry, the
\* first call goes to large and is refused for quota, the next call goes to small
\* and succeeds.
ScenarioC ==
    /\ Ended
    /\ task[1].pref = "large" /\ task[1].allow
    /\ hist.entry_skip = NoSkip
    /\ Len(Calls(hist.events)) >= 2
    /\ Calls(hist.events)[1] = CallEvent("large", "rate")
    /\ Calls(hist.events)[2] = CallEvent("small", "ok")

ScenarioCResult ==
    /\ task[1].ret.kind = "ret" /\ task[1].ret.used = "small" /\ task[1].ret.fb
    /\ Len(Calls(hist.events)) = 2
    /\ NumWaits(hist.events) = 0
    /\ skip_model["large"]

\* C9 as stated: in scenario C the result names small with fallback_used = true,
\* exactly two backend calls were made, no wait occurred and large is marked
\* exhausted afterwards.
C9_ScenarioC_AsStated == ScenarioC => ScenarioCResult

\* C9: scenario C has the stated outcome when no other worker writes the exhausted
\* flags while the dispatch runs.
C9_ScenarioC_Undisturbed == (ScenarioC /\ ~hist.intf) => ScenarioCResult

\* C9 witness: scenario C has run to its end undisturbed.
C9_Witness == ScenarioC /\ ~hist.intf /\ skip_model = [small |-> FALSE, large |-> TRUE]

\* C10: a content-filtered response to any backend call of a dispatch is the last
\* event of the dispatch, which ends with the content-filter error, not with a
\* rate-limit signal (here: with no other worker writing the flags meanwhile).
C10_ContentFilteredNeverRetried ==
    (Ended /\ ~hist.intf) =>
        \A i \in 1..Len(hist.events) :
            (hist.events[i].kind = "call" /\ is_content_filtered(hist.events[i].out))
            => /\ i = Len(hist.events)
               /\ task[1].ret.kind = "raise"
               /\ task[1].ret.exc = "ContentFiltered"

(***************************************************************************)
(* Properties of answer() after a failed dispatch (Spec, DispatchSpec).    *)
(***************************************************************************)
\* The step of answer() that follows a dispatch of question q.
AnswerGoesOn(q) == task[q].pc = "returned" /\ task'[q] # task[q]

\* The dispatch of question q raised an exception of the given kind.
Raised(q, exc) == task[q].ret.kind = "raise" /\ task[q].ret.exc = exc

\* C11: when a dispatch of a question ends with an error whose message says
\* "content filtered", answer() makes no further backend call, returns the letter of
\* the question's cannot-answer choice, or "A" if it has none, and caches it.
C11_PolicyRefusalResolved ==
    [][\A q \in QIds :
         (AnswerGoesOn(q) /\ task[q].ret.kind = "raise" /\ task[q].ret.cf)
         => /\ task'[q].pc = "done"
            /\ task'[q].status = "success"
            /\ task'[q].answer = ErrorAnswer(q, TRUE)
            /\ InCache(answer_cache', q)
            /\ answer_cache'[q].extracted_answer = ErrorAnswer(q, TRUE)]_vars

\* Every backend call of the dispatch failed with a server or an unknown error.
OnlyPersistentErrors ==
    /\ hist.events # <<>>
    /\ \A i \in 1..Len(hist.events) :
          /\ hist.events[i].kind = "call"
          /\ hist.events[i].out \in {"server", "unknown"}

\* C12: a dispatch that fails with server or unknown errors on all its calls does not
\* end with the defer signal RateLimitError, which stops the pool and leads to a wait.
C12_PersistentErrorsNotDeferred ==
    (Ended /\ ~hist.intf /\ task[1].allow /\ OnlyPersistentErrors)
        => ~Raised(1, "RateLimitError")

\* C13: when a dispatch raises LargeModelRateLimited the question gets the status
\* large_limited and no cache entry is written for it.
C13_LargeLimitedDeferred ==
    [][\A q \in QIds :
         (AnswerGoesOn(q) /\ Raised(q, "LargeModelRateLimited"))
         => /\ task'[q].pc = "done"
            /\ task'[q].status = "large_limited"
            /\ ~InCache(answer_cache', q)]_vars

(***************************************************************************)
(* Termination of one dispatch (FairDispatchSpec).                         *)
(***************************************************************************)
\* Every backend call and every wait of the observed dispatch returns; the other
\* workers may write the flags at any time.
FairDispatchSpec == DispatchSpec /\ WF_vars(DispatchCall \/ DispatchWait)

\* The dispatch ended with exactly one of its outcomes: a response of a tier, a
\* defer signal, or the content-filter error of the backend.
OneOutcome ==
    \/ /\ task[1].ret.kind = "ret"
       /\ task[1].ret.used \in Tiers
       /\ task[1].ret.exc = None
    \/ /\ task[1].ret.kind = "raise"
       /\ task[1].ret.exc \in {"RateLimitError", "LargeModelRateLimited", "ContentFiltered"}
       /\ task[1].ret.used = None

\* C14: every dispatch ends, with exactly one outcome, after at most 5 backend calls
\* and at most 2 quota-window waits.
C14_DispatchTerminatesBounded ==
    /\ <>Ended
    /\ [](/\ Len(Calls(hist.events)) <= 5
          /\ NumWaits(hist.events) <= 2
          /\ Ended => OneOutcome)

\* C14 witness: a dispatch has ended after 5 backend calls and 2 waits.
C14_Witness ==
    /\ Ended
    /\ Len(Calls(hist.events)) = 5
    /\ NumWaits(hist.events) = 2

(***************************************************************************)
(* Properties of the answer cache during run() (Spec).                     *)
(***************************************************************************)
\* C15: a question id that has an entry in the in-memory answer cache has an entry
\* in every later state of the run.
C15_CacheAdditiveOnly ==
    [][\A q \in QIds : InCache(answer_cache, q) => InCache(answer_cache', q)]_vars

\* C19: when run() completes, the cache file equals the in-memory answer cache, and
\* every question that got an answer during the run is in the file with that answer.
C19_PersistedAtExit ==
    mpc = "done" =>
        /\ load_answer_cache(disk_cache) = answer_cache
        /\ \A q \in QIds :
              results[q] # None =>
                  /\ InCache(load_answer_cache(disk_cache), q)
                  /\ load_answer_cache(disk_cache)[q].extracted_answer = results[q]

(***************************************************************************)
(* The cache operations of one pipeline, interleaved: answer() called on   *)
(* cached and uncached ids by the workers, _save_answer_cache as the two   *)
(* steps that take and release self._cache_lock, import_from_cache, and a  *)
(* restart of the pipeline on the same version.  The pipeline starts on a  *)
(* version that has no file yet; the prior version's file is old_store.    *)
(***************************************************************************)
MaxLogs == 2

CacheInit ==
    /\ questions = [q \in QIds |-> [qtype |-> "general", cannot |-> None, safe_idx |-> None]]
    /\ skip_model = NoSkip
    /\ pending_queues = [m \in Tiers |-> 0]
    /\ disk_cache = NoFile
    /\ answer_cache = load_answer_cache(disk_cache)
    /\ logs = <<>>
    /\ task = [q \in QIds |-> IdleTask]
    /\ pool = [m \in Tiers |-> IdlePool]
    /\ sub_results = [m \in Tiers |-> NoResults]
    /\ sub_remaining = [m \in Tiers |-> {}]
    /\ pending = [m \in Tiers |-> {}]
    /\ results = NoResults
    /\ retry = [list |-> <<>>, idx |-> 0, old |-> None]
    /\ final_results = <<>>
    /\ mpc = "cache"
    /\ hist = NoHist
    /\ \E old \in [QIds -> {NoEntry, Entry0(PreCached, FALSE)}] :
           old_store \in {NoFile, OldFormatFile(old), SavedCache(old)}
    /\ cache_lock = "free"
    /\ snapshot = EmptyCache
    /\ cache_op = None
    /\ extract = NoExtract
    /\ frame = NoFrame
    /\ route = NoRoute
    /\ client = NoClient
    /\ persist = NoPersist

run_vars ==
    <<questions, skip_model, pending_queues, task, pool, sub_results, sub_remaining,
      pending, results, retry, final_results, mpc, hist, extract, frame,
      route, client, persist>>

LogOf(q, entry) ==
    [qid |-> q, needs_large_retry |-> entry.needs_large_retry,
     retried_with_large |-> entry.retried_with_large]

\* answer() on an id that is not cached, lines 586-595: the log entry is appended
\* and stored (590, outside the lock); the periodic save needs the lock.
CachePut ==
    /\ mpc = "cache"
    /\ \E q \in QIds, letter \in Valid(NumChoices) :
           LET cache1 == [answer_cache EXCEPT ![q] = Entry0(letter, FALSE)]
               due    == Cardinality(CachedIds(cache1)) % SaveEvery = 0
           IN  /\ get_cached_answer(answer_cache, q) = None
               /\ Len(logs) < MaxLogs
               /\ due => cache_lock = "free"
               /\ logs' = Append(logs, LogOf(q, cache1[q]))
               /\ answer_cache' = cache1
               /\ disk_cache' = IF due THEN SavedCache(cache1) ELSE disk_cache
    /\ cache_op' = "put"
    /\ UNCHANGED <<run_vars, old_store, cache_lock, snapshot>>

\* answer() on a cached id, lines 343-350: the stored entry itself gets
\* from_cache = True and is appended to the logs.
CacheHit ==
    /\ mpc = "cache"
    /\ \E q \in QIds :
           /\ get_cached_answer(answer_cache, q) # None
           /\ Len(logs) < MaxLogs
           /\ answer_cache' = [answer_cache EXCEPT ![q].from_cache = TRUE]
           /\ logs' = Append(logs, LogOf(q, answer_cache[q]))
    /\ cache_op' = "hit"
    /\ UNCHANGED <<run_vars, disk_cache, old_store, cache_lock, snapshot>>

\* _save_answer_cache, lines 88-89: the lock is taken and the cache copied.
SaveBegin ==
    /\ mpc = "cache"
    /\ cache_lock = "free"
    /\ cache_lock' = "held"
    /\ snapshot' = answer_cache
    /\ UNCHANGED <<run_vars, answer_cache, disk_cache, logs, old_store, cache_op>>

\* _save_answer_cache, lines 90-95: the copy is written and the lock released.
SaveEnd ==
    /\ mpc = "cache"
    /\ cache_lock = "held"
    /\ disk_cache' = SavedCache(snapshot)
    /\ cache_lock' = "free"
    /\ snapshot' = EmptyCache
    /\ cache_op' = "save"
    /\ UNCHANGED <<run_vars, answer_cache, logs, old_store>>

\* import_from_cache adding every entry of the old file.
Imported_Overwrite(cache, old) == [q \in QIds |-> IF InCache(old, q) THEN old[q] ELSE cache[q]]

\* import_from_cache, lines 109-112: the entries of the old file whose id is not cached.
Imported(cache, old) == [q \in QIds |-> IF InCache(cache, q) THEN cache[q] ELSE old[q]]

\* import_from_cache (99-116): a missing old file raises inside the try and
\* nothing changes; otherwise the absent ids are added and the cache is saved.
ImportFromCache ==
    /\ mpc = "cache"
    /\ cache_lock = "free"
    /\ IF old_store.exists
       THEN /\ answer_cache' = Imported(answer_cache, load_answer_cache(old_store))
            /\ disk_cache' = SavedCache(answer_cache')
       ELSE UNCHANGED <<answer_cache, disk_cache>>
    /\ cache_op' = "import"
    /\ UNCHANGED <<run_vars, logs, old_store, cache_lock, snapshot>>

\* The process ends and a new Pipeline of the same version is built (line 58).
Reload ==
    /\ mpc = "cache"
    /\ cache_lock = "free"
    /\ answer_cache' = load_answer_cache(disk_cache)
    /\ logs' = <<>>
    /\ cache_op' = "load"
    /\ UNCHANGED <<run_vars, disk_cache, old_store, cache_lock, snapshot>>

CacheNext ==
    \/ CachePut
    \/ CacheHit
    \/ SaveBegin
    \/ SaveEnd
    \/ ImportFromCache
    \/ Reload

CacheSpec == CacheInit /\ [][CacheNext]_vars

\* C16: outside the reconciliation pass a cached entry stays equal to what was
\* first stored: no step of answer() (hit or insert of another id), of
\* import_from_cache or of _save_answer_cache changes the entry of a cached id.
C16_CachedEntryNeverModified ==
    [][(CachePut \/ CacheHit \/ SaveBegin \/ SaveEnd \/ ImportFromCache)
       => \A q \in QIds : InCache(answer_cache, q) => answer_cache'[q] = answer_cache[q]]_vars

\* C17: every mutation of the in-memory cache is made under the cache lock, so
\* while a thread is inside _save_answer_cache (the lock is held) no step
\* changes self.answer_cache.
C17_NoMutationDuringSave ==
    [][cache_lock = "held" => answer_cache' = answer_cache]_vars

\* The file read back gives the cache that was saved, and its count field is the
\* number of entries of that cache.
RoundTrip(cache, file) ==
    /\ load_answer_cache(file) = cache
    /\ \A q \in QIds : InCache(load_answer_cache(file), q) <=> InCache(cache, q)
    /\ file.count = Cardinality(CachedIds(cache))

C20_ImportAddsOnlyAbsentIds ==
    /\ [](cache_op = None => answer_cache = EmptyCache)
    /\ [][ImportFromCache =>
            LET old == load_answer_cache(old_store)
            IN  /\ \A q \in QIds : InCache(answer_cache, q) => answer_cache'[q] = answer_cache[q]
                /\ \A q \in QIds : ~InCache(answer_cache, q) => answer_cache'[q] = old[q]
                /\ CachedIds(answer_cache') = CachedIds(answer_cache) \cup CachedIds(old)
                /\ old_store' = old_store]_vars

C20_Witness ==
    LET old == load_answer_cache(old_store)
    IN  /\ cache_op = "import"
        /\ \E q1, q2 \in QIds :
               /\ q1 # q2
               /\ InCache(old, q1) /\ answer_cache[q1] = old[q1]
               /\ InCache(old, q2) /\ InCache(answer_cache, q2) /\ answer_cache[q2] # old[q2]

\* The question the reconciliation loop is at.
RetryQ == retry.list[retry.idx]

\* C21: the reconciliation pass is one sweep: the list of flagged ids is fixed
\* when the pass starts and the loop only moves forward over it; a question is
\* re-attempted (RetryNext) once, at its own position, and no id occurs at two
\* positions; a re-attempt that returned leaves its log entry, the last one,
\* marked retried_with_large, also when it used a fallback again; once the
\* sweep is over the run never goes back to it; and the pass, once started,
\* reaches its end.
C21_OneShotReconciliation ==
    /\ [](mpc = "retry_wait" => <>(mpc = "final"))
    /\ [][/\ mpc = "retry" => /\ retry'.list = retry.list
                              /\ retry'.idx \in {retry.idx, retry.idx + 1}
          /\ mpc \in {"final", "done"} => mpc' \in {"final", "done"} /\ retry' = retry
          /\ RetryNext => /\ \A i \in 1..(retry.idx - 1) : retry.list[i] # RetryQ
                          /\ task[RetryQ].pc = "idle" /\ task'[RetryQ].pc # "idle"
                          /\ retry'.idx = retry.idx
          /\ RetryCollect => /\ retry'.idx = retry.idx + 1
                             /\ task[RetryQ].status = "success" =>
                                  /\ logs'[Len(logs')].qid = RetryQ
                                  /\ logs'[Len(logs')].retried_with_large]_vars

C21_Witness ==
    /\ mpc = "done"
    /\ \E i \in 1..Len(logs) : logs[i].needs_large_retry /\ logs[i].retried_with_large

\* C22: the re-attempt of the reconciliation pass is made on the large tier
\* only: its dispatches have allow_fallback false, each of its backend calls is
\* a call of the large tier, and no dispatch of it returns fallback_used = true.
C22_ReattemptLargeOnly ==
    \A q \in QIds :
        task[q].by = "run" =>
            /\ InDispatch(task[q]) => ~task[q].allow
            /\ task[q].pc = "call" => SiteTier(task[q].site, task[q].model) = "large"
            /\ (task[q].pc = "returned" /\ task[q].ret.kind = "ret") => ~task[q].ret.fb

\* C23: Scenario B: a question classified safety whose metadata names the
\* refusal choice (safe_idx is set) is answered with the letter of that choice
\* and without any backend call.
C23_SafeChoiceWithoutCall ==
    \A q \in QIds :
        (questions[q].safe_idx # None /\ task[q].pc = "done" /\ task[q].status = "success")
        => /\ task[q].answer = questions[q].safe_idx
           /\ ~task[q].called

(***************************************************************************)
(* _extract_answer (597-648).  A response text is a sequence of lines and  *)
(* a line a sequence of the pieces the three regular expressions tell      *)
(* apart: the anchor phrase "Đáp án cuối cùng" followed by a letter or by  *)
(* none, a bold letter "**X.", a looser phrase "Đáp án: X", other words.   *)
(***************************************************************************)
MaxLines == 2

MaxTokens == 2

\* The window of the looser scan: lines[-20:] (640).
LooseWindow == 20

Max(S) == CHOOSE x \in S : \A y \in S : y <= x

Word == [k |-> "word", l |-> None]

Anchor(l) == [k |-> "anchor", l |-> l]

Bold(l) == [k |-> "bold", l |-> l]

Loose(l) == [k |-> "loose", l |-> l]

\* The pieces of the texts tried: the letters are the first NumChoices ones, so
\* that a call with fewer choices meets letters out of its range.
Tokens ==
    {Word, Anchor(None)}
        \cup {Anchor(l) : l \in Valid(NumChoices)}
        \cup {Bold(l) : l \in Valid(NumChoices)}
        \cup {Loose(l) : l \in Valid(NumChoices)}

SeqsUpTo(S, n) == UNION {[1..k -> S] : k \in 1..n}

Lines == SeqsUpTo(Tokens, MaxTokens)

\* A text: its lines, with pad lines of other words after the first one.
Padded(ls, pad) == <<ls[1]>> \o [i \in 1..pad |-> <<Word>>] \o Tail(ls)

\* "ans in valid" accepting every letter the expressions capture.
IsValid_AnyLetter(l, n) == l # None

\* "ans in valid" (621, 632, 644), valid being the first num_choices letters (603).
IsValid(l, n) == l \in Valid(n)

\* line 612: the lower-cased line contains the anchor phrase.
HasAnchor(line) == \E j \in 1..Len(line) : line[j].k = "anchor"

\* lines 615-620: re.search returns the first place of the line where the
\* anchor phrase is followed by a letter; group(1).upper().
AnchorMatch(line) ==
    LET S == {j \in 1..Len(line) : line[j].k = "anchor" /\ line[j].l # None}
    IN  IF S = {} THEN None ELSE line[Min(S)].l

\* lines 628-631: the bold letter at the start of the stripped next line.
BoldMatch(line) == IF line[1].k = "bold" THEN line[1].l ELSE None

\* lines 641-643: re.search returns the first looser phrase of the line.
LooseMatch(line) ==
    LET S == {j \in 1..Len(line) : line[j].k = "loose"}
    IN  IF S = {} THEN None ELSE line[Min(S)].l

\* Lines 609-633 taking the letter after the anchor phrase without the range test.
Candidate_NoRangeTest(lines, i, n) ==
    IF ~HasAnchor(lines[i]) THEN None ELSE AnchorMatch(lines[i])

\* lines 609-633: what the loop appends to found_answers at line i (None: nothing).
Candidate(lines, i, n) ==
    IF ~HasAnchor(lines[i]) THEN None
    ELSE IF IsValid(AnchorMatch(lines[i]), n) THEN AnchorMatch(lines[i])
    ELSE IF i + 1 <= Len(lines) /\ IsValid(BoldMatch(lines[i + 1]), n)
         THEN BoldMatch(lines[i + 1])
    ELSE None

\* found_answers after the loop.
found_answers(lines, n) ==
    SelectSeq([i \in 1..Len(lines) |-> Candidate(lines, i, n)], LAMBDA c : c # None)

\* lines 640-645: the last lines, from the end backward.
LooseScan(lines, n) ==
    LET hits == {i \in 1..Len(lines) : /\ i > Len(lines) - LooseWindow
                                       /\ IsValid(LooseMatch(lines[i]), n)}
    IN  IF hits = {} THEN None ELSE LooseMatch(lines[Max(hits)])

\* _extract_answer(text, num_choices)
extract_answer(lines, n) ==
    LET found == found_answers(lines, n)
    IN  IF found # <<>> THEN found[Len(found)]
        ELSE IF LooseScan(lines, n) # None THEN LooseScan(lines, n)
        ELSE "A"

ExtractInit ==
    /\ questions = [q \in QIds |-> [qtype |-> "general", cannot |-> None, safe_idx |-> None]]
    /\ skip_model = NoSkip
    /\ pending_queues = [m \in Tiers |-> 0]
    /\ disk_cache = NoFile
    /\ answer_cache = load_answer_cache(disk_cache)
    /\ logs = <<>>
    /\ task = [q \in QIds |-> IdleTask]
    /\ pool = [m \in Tiers |-> IdlePool]
    /\ sub_results = [m \in Tiers |-> NoResults]
    /\ sub_remaining = [m \in Tiers |-> {}]
    /\ pending = [m \in Tiers |-> {}]
    /\ results = NoResults
    /\ retry = [list |-> <<>>, idx |-> 0, old |-> None]
    /\ final_results = <<>>
    /\ mpc = "extract"
    /\ hist = NoHist
    /\ old_store = NoFile
    /\ cache_lock = "free"
    /\ snapshot = EmptyCache
    /\ cache_op = None
    /\ \E ls \in SeqsUpTo(Lines, MaxLines), pad \in {0, LooseWindow}, n \in 1..NumChoices :
           extract = [text |-> Padded(ls, pad), num_choices |-> n, result |-> None]
    /\ frame = NoFrame
    /\ route = NoRoute
    /\ client = NoClient
    /\ persist = NoPersist

\* The call returns.
ExtractAnswer ==
    /\ mpc = "extract"
    /\ extract.result = None
    /\ extract' = [extract EXCEPT !.result = extract_answer(extract.text, extract.num_choices)]
    /\ UNCHANGED <<questions, skip_model, pending_queues, answer_cache, disk_cache, logs, task,
                   pool, sub_results, sub_remaining, pending, results, retry, final_results,
                   mpc, hist, cache_aux, frame, route, client, persist>>

ExtractNext == ExtractAnswer

ExtractSpec == ExtractInit /\ [][ExtractNext]_vars

\* Some anchor phrase of the text is followed by a letter of the range, or stands
\* on a line whose next line starts with a bold letter of the range.
AnchorYields(lines, n) ==
    \E i \in 1..Len(lines) :
        \/ \E j \in 1..Len(lines[i]) : lines[i][j].k = "anchor" /\ lines[i][j].l \in Valid(n)
        \/ /\ HasAnchor(lines[i])
           /\ i + 1 <= Len(lines)
           /\ lines[i + 1][1].k = "bold" /\ lines[i + 1][1].l \in Valid(n)

\* The lines that hold a looser phrase followed by a letter of the range.
LooseLines(lines, n) ==
    {i \in 1..Len(lines) :
        \E j \in 1..Len(lines[i]) : lines[i][j].k = "loose" /\ lines[i][j].l \in Valid(n)}

Yield(lines, n, i, j) ==
    IF lines[i][j].l \in Valid(n) THEN lines[i][j].l
    ELSE IF /\ \A k \in 1..Len(lines[i]) :
                  lines[i][k].k = "anchor" => lines[i][k].l \notin Valid(n)
            /\ i + 1 <= Len(lines)
            /\ lines[i + 1][1].k = "bold" /\ lines[i + 1][1].l \in Valid(n)
         THEN lines[i + 1][1].l
    ELSE None

\* The places (line, position) of the anchor phrases that yield a letter.
YieldingAnchors(lines, n) ==
    {p \in (1..Len(lines)) \X (1..MaxTokens) :
        /\ p[2] <= Len(lines[p[1]])
        /\ lines[p[1]][p[2]].k = "anchor"
        /\ Yield(lines, n, p[1], p[2]) # None}

\* The last place of a set of places, in reading order.
LastPlace(S) ==
    CHOOSE p \in S : \A r \in S : r[1] < p[1] \/ (r[1] = p[1] /\ r[2] <= p[2])

\* C28: last anchor wins: when some anchor phrase of the text yields a letter,
\* _extract_answer returns the letter of the last anchor phrase that does,
\* whatever earlier anchor phrases, other letters and looser phrases say.
C28_LastAnchorWins ==
    (extract.result # None /\ YieldingAnchors(extract.text, extract.num_choices) # {})
    => LET p == LastPlace(YieldingAnchors(extract.text, extract.num_choices))
       IN  extract.result = Yield(extract.text, extract.num_choices, p[1], p[2])

\* C29: loose fallback: when no anchor phrase yields a letter and some line of
\* the text, wherever it is, holds a looser phrase followed by a letter of the
\* range, _extract_answer returns a letter such a phrase gives on the line of
\* this kind closest to the end of the text, not the default.
C29_LooseFallbackAnywhere ==
    LET lines == extract.text
        n     == extract.num_choices
    IN  (/\ extract.result # None
         /\ YieldingAnchors(lines, n) = {}
         /\ LooseLines(lines, n) # {})
        => LET last == lines[Max(LooseLines(lines, n))]
           IN  \E j \in 1..Len(last) :
                   /\ last[j].k = "loose"
                   /\ last[j].l \in Valid(n)
                   /\ extract.result = last[j].l

(***************************************************************************)
(* One call of answer() on a question that is not cached, for every        *)
(* question kind, every sequence of backend outcomes and every response    *)
(* text of a small set, with the letters taken from the responses by       *)
(* _extract_answer.                                                        *)
(***************************************************************************)
\* The responses tried: the anchor phrase with each letter of the range and
\* with the first letter out of the range.
Responses == {<<<<Anchor(LetterSeq[i])>>>> : i \in 1..(NumChoices + 1)}

\* The messages of a dispatch: which prompt, the response it quotes (<<>>: none)
\* and the answers it quotes.
Prompt(kind, response, answers) == [kind |-> kind, response |-> response, answers |-> answers]

\* The messages of the di-th dispatch (389, 395-417, 431, 445, 454, 463, 493-516, 539).
PromptOf(qtype, di, responses, answers) ==
    CASE qtype = "math" /\ di = 2    -> Prompt("verify", responses[1], <<answers[1]>>)
      [] qtype = "reading" /\ di = 2 -> Prompt("v2", <<>>, <<>>)
      [] qtype = "reading" /\ di = 3 -> Prompt("v3", <<>>, <<>>)
      [] qtype = "reading" /\ di = 4 -> Prompt("tiebreak", <<>>, answers)
      [] OTHER                       -> Prompt("first", <<>>, <<>>)

\* The answer of a math question taken from the first response.
MathAnswer_First(first_answer, verified) == first_answer

\* line 423: the answer of a math question is extracted from the verification.
MathAnswer(first_answer, verified) == verified

AnswerInit ==
    /\ \E kind \in QuestionKinds : questions = [q \in QIds |-> kind]
    /\ skip_model \in [Tiers -> BOOLEAN]
    /\ pending_queues = [m \in Tiers |-> 0]
    /\ disk_cache = NoFile
    /\ answer_cache = load_answer_cache(disk_cache)
    /\ logs = <<>>
    /\ task = [q \in QIds |->
                 IF q = 1
                 THEN AnswerStart([IdleTask EXCEPT !.by = "caller"], 1, questions[1].qtype,
                                  answer_cache, skip_model, pending_queues)
                 ELSE IdleTask]
    /\ pool = [m \in Tiers |-> IdlePool]
    /\ sub_results = [m \in Tiers |-> NoResults]
    /\ sub_remaining = [m \in Tiers |-> {}]
    /\ pending = [m \in Tiers |-> {}]
    /\ results = NoResults
    /\ retry = [list |-> <<>>, idx |-> 0, old |-> None]
    /\ final_results = <<>>
    /\ mpc = "answer"
    /\ hist = NoHist
    /\ old_store = NoFile
    /\ cache_lock = "free"
    /\ snapshot = EmptyCache
    /\ cache_op = None
    /\ extract = NoExtract
    /\ frame = [NoFrame EXCEPT !.prompts = <<PromptOf(questions[1].qtype, 1, <<>>, <<>>)>>]
    /\ route = NoRoute
    /\ client = NoClient
    /\ persist = NoPersist

\* A backend call of the observed answer() returns.
AnswerCall ==
    /\ mpc = "answer"
    /\ \E o \in Outcomes : Call(1, o)
    /\ UNCHANGED <<hist, cache_aux, answer_aux>>

\* A quota-window wait of the observed answer() ends.
AnswerWait ==
    /\ mpc = "answer"
    /\ Waited(1)
    /\ UNCHANGED <<hist, cache_aux, answer_aux>>

\* The frame when answer() goes on to its next dispatch.
Dispatched(qtype, di, resp, letter) ==
    LET responses == Append(frame.responses, resp)
        answers   == Append(frame.answers, letter)
    IN  [frame EXCEPT !.responses = responses,
                      !.answers = answers,
                      !.prompts = Append(@, PromptOf(qtype, di, responses, answers))]

\* lines 381-595 for the observed call: a dispatch returned or raised.
AnswerContinue ==
    /\ mpc = "answer"
    /\ task[1].pc = "returned"
    /\ LET t == task[1]
           r == t.ret
           qtype == questions[1].qtype
           fb1 == t.fb \/ r.fb
       IN  IF r.kind = "ret"
           THEN \E resp \in Responses :
                  LET letter == extract_answer(resp, NumChoices)
                  IN  CASE qtype = "math" /\ t.di = 1 ->
                             /\ NextDispatch(1, [t EXCEPT !.fb = fb1])
                             /\ frame' = Dispatched(qtype, 2, resp, letter)
                        [] qtype = "math" /\ t.di = 2 ->
                             LET answer == MathAnswer(frame.answers[1], letter)
                             IN  /\ Finish(1, answer, fb1)
                                 /\ frame' = [frame EXCEPT
                                        !.responses = Append(@, resp),
                                        !.log_entry = [@ EXCEPT !.first_answer = frame.answers[1],
                                                                !.verification = TRUE,
                                                                !.needs_large_retry = fb1,
                                                                !.extracted_answer = answer]]
                        [] qtype = "reading" /\ t.di <= 2 ->
                             /\ NextDispatch(1, [t EXCEPT !.fb = fb1])
                             /\ frame' = Dispatched(qtype, t.di + 1, resp, letter)
                        [] qtype = "reading" /\ t.di = 3 ->
                             LET votes == Append(frame.answers, letter)
                             IN  IF Majority(votes) # None
                                 THEN /\ Finish(1, Majority(votes), fb1)
                                      /\ frame' = [frame EXCEPT
                                             !.responses = Append(@, resp),
                                             !.answers = votes,
                                             !.log_entry = [@ EXCEPT !.reading_votes = votes,
                                                                     !.reading_consensus = "True",
                                                                     !.needs_large_retry = fb1,
                                                                     !.extracted_answer = Majority(votes)]]
                                 ELSE /\ NextDispatch(1, [t EXCEPT !.fb = fb1])
                                      /\ frame' = [Dispatched(qtype, 4, resp, letter) EXCEPT
                                             !.log_entry = [@ EXCEPT !.reading_votes = votes]]
                        [] qtype = "reading" /\ t.di = 4 ->
                             /\ Finish(1, letter, fb1)
                             /\ frame' = [frame EXCEPT
                                    !.responses = Append(@, resp),
                                    !.log_entry = [@ EXCEPT !.tiebreak_answer = letter,
                                                            !.reading_consensus = "False",
                                                            !.needs_large_retry = fb1,
                                                            !.extracted_answer = letter]]
                        [] OTHER ->
                             /\ Finish(1, letter, fb1)
                             /\ frame' = [frame EXCEPT
                                    !.responses = Append(@, resp),
                                    !.log_entry = [@ EXCEPT !.single_call = (qtype = "general"),
                                                            !.needs_large_retry = fb1,
                                                            !.extracted_answer = letter]]
           ELSE IF qtype = "reading" /\ t.di = 4
                THEN /\ Finish(1, frame.answers[1], t.fb)
                     /\ frame' = [frame EXCEPT
                            !.log_entry = [@ EXCEPT !.reading_consensus = "False",
                                                    !.needs_large_retry = t.fb,
                                                    !.extracted_answer = frame.answers[1]]]
                ELSE IF r.exc = "RateLimitError"
                     THEN /\ Propagate(1, "small_limited")
                          /\ UNCHANGED frame
                     ELSE /\ Finish(1, ErrorAnswer(1, r.cf), FALSE)
                          /\ frame' = [frame EXCEPT
                                 !.log_entry = [@ EXCEPT !.error = TRUE,
                                                         !.extracted_answer = ErrorAnswer(1, r.cf)]]
    /\ UNCHANGED <<questions, pending_queues, pool, sub_results, sub_remaining, pending,
                   results, retry, final_results, mpc, hist, cache_aux, extract,
                   route, client, persist>>

AnswerNext ==
    \/ AnswerCall
    \/ AnswerWait
    \/ AnswerContinue

AnswerSpec == AnswerInit /\ [][AnswerNext]_vars

\* The observed answer() returned an answer.
AnswerDone == mpc = "answer" /\ task[1].pc = "done" /\ task[1].status = "success"

\* The three reading votes are pairwise different.
ThreeWayTie ==
    /\ questions[1].qtype = "reading"
    /\ Len(frame.answers) = 3
    /\ \A i, j \in 1..3 : i # j => frame.answers[i] # frame.answers[j]

\* C24: reading tie-break: when the three votes are pairwise different, one
\* adjudication dispatch follows the votes, the answer is the letter extracted
\* from its response, and the log entry records reading_consensus false with
\* that letter as tiebreak_answer.
C24_TieBreakAdjudicates ==
    (AnswerDone /\ ThreeWayTie)
    => /\ Len(frame.prompts) = 4
       /\ frame.prompts[4].kind = "tiebreak"
       /\ Len(frame.responses) = 4
       /\ task[1].answer = extract_answer(frame.responses[4], NumChoices)
       /\ frame.log_entry.reading_consensus = "False"
       /\ frame.log_entry.tiebreak_answer = task[1].answer

\* The letters that have at least two of the votes.
TwoVotes(votes) ==
    {l \in Valid(NumChoices) : Cardinality({i \in 1..Len(votes) : votes[i] = l}) >= 2}

\* C25: reading majority: a reading question answered without an error has
\* gathered three votes, one from the response of each of its first three
\* dispatches (prompts v1, v2, v3); when a letter has at least two of the votes
\* it is the answer, whichever votes agree, and no adjudication is dispatched.
C25_ReadingMajority ==
    (AnswerDone /\ questions[1].qtype = "reading" /\ ~frame.log_entry.error)
    => /\ Len(frame.answers) = 3
       /\ Len(frame.responses) >= 3
       /\ \A i \in 1..3 : frame.answers[i] = extract_answer(frame.responses[i], NumChoices)
       /\ <<frame.prompts[1].kind, frame.prompts[2].kind, frame.prompts[3].kind>>
              = <<"first", "v2", "v3">>
       /\ frame.log_entry.reading_votes = frame.answers
       /\ \A l \in TwoVotes(frame.answers) :
              /\ task[1].answer = l
              /\ answer_cache[1].extracted_answer = l
              /\ Len(frame.prompts) = 3
              /\ frame.log_entry.reading_consensus = "True"

\* The votes C, B, B: the agreeing votes are the last two.
C25_Witness ==
    /\ AnswerDone
    /\ questions[1].qtype = "reading"
    /\ frame.answers = <<"C", "B", "B">>
    /\ task[1].answer = "B"
    /\ Len(frame.prompts) = 3

\* C26: math two-call pattern: a math question answered without an error made
\* exactly two dispatches; the second, the verification, quotes the first
\* response and the letter extracted from it, and a dispatch is only started
\* when the one before it has returned a response; the answer returned, logged
\* and cached is the letter extracted from the verification response, also
\* when the first response gave another letter, which is logged as first_answer.
C26_MathSolveThenVerify ==
    /\ []((AnswerDone /\ questions[1].qtype = "math" /\ ~frame.log_entry.error)
          => /\ Len(frame.prompts) = 2
             /\ Len(frame.responses) = 2
             /\ frame.prompts[1].kind = "first"
             /\ frame.prompts[2] =
                    Prompt("verify", frame.responses[1],
                           <<extract_answer(frame.responses[1], NumChoices)>>)
             /\ task[1].answer = extract_answer(frame.responses[2], NumChoices)
             /\ answer_cache[1].extracted_answer = task[1].answer
             /\ frame.log_entry.extracted_answer = task[1].answer
             /\ frame.log_entry.first_answer = extract_answer(frame.responses[1], NumChoices)
             /\ frame.log_entry.verification)
    /\ [][Len(frame'.prompts) > Len(frame.prompts)
             => /\ task[1].pc = "returned" /\ task[1].ret.kind = "ret"
                /\ Len(frame'.prompts) = Len(frame.prompts) + 1
                /\ Len(frame'.responses) = Len(frame.prompts)]_vars

C26_Witness ==
    /\ AnswerDone
    /\ questions[1].qtype = "math"
    /\ ~frame.log_entry.error
    /\ frame.log_entry.first_answer = "B"
    /\ task[1].answer = "C"

\* C30: answer range: whatever path the observed answer() takes to return
\* (single call, math verification, reading majority, tie-break, tie-break
\* failure, policy refusal, error default), the answer it returns and the
\* extracted_answer it logs and caches are the same letter, one of the first
\* NumChoices letters.
C30_AnswerInRange ==
    AnswerDone
    => /\ task[1].answer \in Valid(NumChoices)
       /\ InCache(answer_cache, 1)
       /\ answer_cache[1].extracted_answer = task[1].answer
       /\ frame.log_entry.extracted_answer = task[1].answer

\* A tie-break whose response names a letter out of the range: the answer is 'A'.
C30_Witness ==
    /\ AnswerDone
    /\ ThreeWayTie
    /\ Len(frame.responses) = 4
    /\ frame.responses[4] = <<<<Anchor(LetterSeq[NumChoices + 1])>>>>
    /\ task[1].answer = "A"

(***************************************************************************)
(* QuestionRouter.classify (question_router.py 173-234).  A question text  *)
(* is taken apart into what the patterns search it for: the phrases of     *)
(* the pattern lists it contains, and its length.  A phrase may be in      *)
(* several lists ("vi phạm" is a safety keyword and a law pattern; "\frac" *)
(* is a math pattern and is LaTeX), so the conditions of the cascade are   *)
(* not independent.  A choice is told apart by whether it holds a refusal  *)
(* phrase (SAFETY_ANSWER_PATTERNS).                                        *)
(***************************************************************************)
Phrases == {"van_ban", "vi_pham", "quoc_hoi", "te_bao", "dung_dich", "van_toc", "dao_ham", "frac"}

\* The pattern lists that match a phrase.
PatternsOf(p) ==
    CASE p = "van_ban"   -> {"reading"}          \* "Văn bản:"  (READING_PATTERNS, 69)
      [] p = "vi_pham"   -> {"safety", "law"}    \* "vi phạm"   (SAFETY_KEYWORDS, 77; LAW, 119)
      [] p = "quoc_hoi"  -> {"politics"}         \* "Quốc hội"  (POLITICS, 105)
      [] p = "te_bao"    -> {"biology"}          \* "tế bào"    (BIOLOGY, 132)
      [] p = "dung_dich" -> {"chemistry"}        \* "dung dịch" (CHEMISTRY, 142)
      [] p = "van_toc"   -> {"physics"}          \* "vận tốc"   (PHYSICS, 151)
      [] p = "dao_ham"   -> {"math"}             \* "đạo hàm"   (MATH, 157)
      [] p = "frac"      -> {"math", "latex"}    \* "\frac"     (MATH, 155; has_latex, 215)
      [] OTHER           -> {}

\* len(question) > 1000
LongThreshold == 1000

\* The question texts tried: any phrases, padded to the threshold or one character beyond.
QuestionTexts == [phrases : SUBSET Phrases, len : {LongThreshold, LongThreshold + 1}]

\* The choice lists tried.
ChoiceLists == [1..NumChoices -> {"plain", "refusal"}]

\* self.<list>_re.search(question)
search(list, question) == \E p \in question.phrases : list \in PatternsOf(p)

\* _find_safe_choice (236-240): the first choice with a refusal phrase, as its letter.
find_safe_choice(choices) ==
    LET S == {i \in 1..Len(choices) : choices[i] = "refusal"}
    IN  IF S = {} THEN None ELSE LetterSeq[Min(S)]

\* _detect_reading_subtype (242-248): none of the phrases tried holds one of its words.
detect_reading_subtype(question) == "detail"

\* The first subtype of the list whose patterns match (the loops of 198-203 and 207-212).
FirstSubtype(subtypes, question) ==
    LET S == {i \in 1..Len(subtypes) : search(subtypes[i], question)}
    IN  IF S = {} THEN None ELSE subtypes[Min(S)]

PyBool(b) == IF b THEN "True" ELSE "False"

\* The metadata dictionary; a key that is absent is None.
Meta(subtype) ==
    [subtype |-> subtype, safe_idx |-> None, use_rag |-> None, is_stem |-> None, has_latex |-> None]

Routed(qtype, model, meta) == [qtype |-> qtype, model |-> model, meta |-> meta]

\* classify with the physics test after the math test.
classify_MathBeforePhysics(question, choices) ==
    LET safe_idx == find_safe_choice(choices)
        social == FirstSubtype(<<"politics", "history", "law", "economics">>, question)
        stem == FirstSubtype(<<"biology", "chemistry">>, question)
        has_latex == search("latex", question)
    IN  IF search("reading", question) \/ question.len > LongThreshold
        THEN Routed("reading", "large", Meta(detect_reading_subtype(question)))
        ELSE IF safe_idx # None \/ search("safety", question)
        THEN Routed("safety", "small", [Meta("refusal") EXCEPT !.safe_idx = safe_idx])
        ELSE IF social # None
        THEN Routed("social_humanities", "small", [Meta(social) EXCEPT !.use_rag = "False"])
        ELSE IF stem # None
        THEN Routed(stem, "small", [Meta(stem) EXCEPT !.is_stem = "True"])
        ELSE IF search("math", question) \/ has_latex
        THEN Routed("math", "small", [Meta("algebra") EXCEPT !.is_stem = "True",
                                                             !.has_latex = PyBool(has_latex)])
        ELSE IF search("physics", question)
        THEN Routed("physics", "small", [Meta("physics") EXCEPT !.is_stem = "True",
                                                               !.has_latex = PyBool(has_latex)])
        ELSE Routed("general", "large", Meta("general_knowledge"))

\* classify reading the exhausted flags: a question of the small tier is sent to the
\* large tier while the small tier is marked.
classify_SkipAware(question, choices) ==
    LET r == classify_MathBeforePhysics(question, choices)
    IN  IF r.model = "small" /\ skip_model["small"] THEN [r EXCEPT !.model = "large"] ELSE r

\* classify (173-234).
classify(question, choices) ==
    LET safe_idx == find_safe_choice(choices)
        social == FirstSubtype(<<"politics", "history", "law", "economics">>, question)
        stem == FirstSubtype(<<"biology", "chemistry">>, question)
        has_latex == search("latex", question)
    IN  IF search("reading", question) \/ question.len > LongThreshold
        THEN Routed("reading", "large", Meta(detect_reading_subtype(question)))
        ELSE IF safe_idx # None \/ search("safety", question)
        THEN Routed("safety", "small", [Meta("refusal") EXCEPT !.safe_idx = safe_idx])
        ELSE IF social # None
        THEN Routed("social_humanities", "small", [Meta(social) EXCEPT !.use_rag = "False"])
        ELSE IF stem # None
        THEN Routed(stem, "small", [Meta(stem) EXCEPT !.is_stem = "True"])
        ELSE IF search("physics", question)
        THEN Routed("physics", "small", [Meta("physics") EXCEPT !.is_stem = "True",
                                                               !.has_latex = PyBool(has_latex)])
        ELSE IF search("math", question) \/ has_latex
        THEN Routed("math", "small", [Meta("algebra") EXCEPT !.is_stem = "True",
                                                             !.has_latex = PyBool(has_latex)])
        ELSE Routed("general", "large", Meta("general_knowledge"))

\* The calls of classify observed for one question.
MaxCalls == 2

\* One question is classified again and again while the pipeline works.
ClassifyInit ==
    /\ questions = [q \in QIds |-> [qtype |-> "general", cannot |-> None, safe_idx |-> None]]
    /\ skip_model = NoSkip
    /\ pending_queues = [m \in Tiers |-> 0]
    /\ disk_cache = NoFile
    /\ answer_cache = load_answer_cache(disk_cache)
    /\ logs = <<>>
    /\ task = [q \in QIds |-> IdleTask]
    /\ pool = [m \in Tiers |-> IdlePool]
    /\ sub_results = [m \in Tiers |-> NoResults]
    /\ sub_remaining = [m \in Tiers |-> {}]
    /\ pending = [m \in Tiers |-> {}]
    /\ results = NoResults
    /\ retry = [list |-> <<>>, idx |-> 0, old |-> None]
    /\ final_results = <<>>
    /\ mpc = "classify"
    /\ hist = NoHist
    /\ old_store = NoFile
    /\ cache_lock = "free"
    /\ snapshot = EmptyCache
    /\ cache_op = None
    /\ extract = NoExtract
    /\ frame = NoFrame
    /\ \E question \in QuestionTexts, choices \in ChoiceLists :
           route = [question |-> question, choices |-> choices, calls |-> <<>>]
    /\ client = NoClient
    /\ persist = NoPersist

\* self.router.classify(question, choices) is called (predict.py 352, 857) and returns.
Classify ==
    /\ mpc = "classify"
    /\ Len(route.calls) < MaxCalls
    /\ route' = [route EXCEPT !.calls = Append(@, classify(route.question, route.choices))]
    /\ UNCHANGED <<questions, skip_model, pending_queues, answer_cache, disk_cache, logs, task,
                   pool, sub_results, sub_remaining, pending, results, retry, final_results,
                   mpc, hist, cache_aux, extract, frame, client, persist>>

\* Between the calls the workers of the pools write the exhausted flags
\* (predict.py 179, 193, 208, 257, 337).
ClassifyInterfere ==
    /\ mpc = "classify"
    /\ \E s \in [Tiers -> BOOLEAN] \ {skip_model} : skip_model' = s
    /\ UNCHANGED <<questions, pending_queues, answer_cache, disk_cache, logs, task, pool,
                   sub_results, sub_remaining, pending, results, retry, final_results, mpc,
                   hist, cache_aux, answer_aux>>

ClassifyNext ==
    \/ Classify
    \/ ClassifyInterfere

ClassifySpec == ClassifyInit /\ [][ClassifyNext]_vars

\* The condition of a category of the cascade.
Holds(category, question, choices) ==
    CASE category = "reading" -> search("reading", question) \/ question.len > LongThreshold
      [] category = "safety"  -> find_safe_choice(choices) # None \/ search("safety", question)
      [] category = "social_humanities" ->
             \E s \in {"politics", "history", "law", "economics"} : search(s, question)
      [] category = "math"    -> search("math", question) \/ search("latex", question)
      [] OTHER                -> search(category, question)

Cascade == <<"reading", "safety", "social_humanities", "biology", "chemistry", "physics", "math">>

\* The earliest category of the cascade whose condition holds, General when none does.
Earliest(question, choices) ==
    LET S == {i \in 1..Len(Cascade) : Holds(Cascade[i], question, choices)}
    IN  IF S = {} THEN "general" ELSE Cascade[Min(S)]

C32_BackendPreference ==
    mpc = "classify" =>
        \A i \in 1..Len(route.calls) :
            LET r == route.calls[i]
            IN  /\ r.qtype = "reading" => r.model = "large"
                /\ r.qtype = "safety" => r.model = "small"
                /\ r.qtype \in {"math", "physics"} /\ r.meta.has_latex = "True" => r.model = "large"

TaskError(q) ==
    LET m == QueueOf(q)
        queued == {r \in pool[m].subm : task[r].pc = "queued"}
        active == {r \in pool[m].subm : Running(task[r])}
    IN  /\ task[q].pc = "queued"
        /\ task[q].by = "pool"
        /\ q = Min(queued)
        /\ Cardinality(active) < Workers(m)
        /\ ~InCache(answer_cache, q)
        /\ task' = [task EXCEPT ![q] = [@ EXCEPT !.pc = "done", !.status = "error",
                                                 !.answer = "A"]]
        /\ UNCHANGED <<questions, hist, cache_aux, answer_aux, skip_model, pending_queues,
                       answer_cache, disk_cache, logs, pool, sub_results, sub_remaining,
                       pending, results, retry, final_results, mpc>>

BoundaryNext ==
    \/ Next
    \/ \E q \in QIds : TaskError(q)

FairBoundarySpec == Init /\ [][BoundaryNext]_vars /\ WF_vars(BoundaryNext)

\* answer() itself handles the exception its dispatch raised (563-584, and the bare
\* except of the tie-break, 527): every exception but RateLimitError.
CaughtInAnswer(q) ==
    /\ Continue(q)
    /\ task[q].ret.kind = "raise"
    /\ task[q].ret.exc # "RateLimitError" \/ (questions[q].qtype = "reading" /\ task[q].di = 4)

\* The answer answer() chooses for an exception it handles.
HandledAnswer(q) ==
    IF questions[q].qtype = "reading" /\ task[q].di = 4
    THEN task[q].votes[1]
    ELSE ErrorAnswer(q, task[q].ret.cf)

PoolWaiting(q) == mpc = "join" /\ task[q].by = "pool" /\ task[q].pc = "wait"

\* The next queued question of the queue of r, in submission order.
NextQueued(r) == r = Min({x \in pending[QueueOf(r)] : task[x].pc = "queued"})

\* C35: while a worker of one pool is inside the quota-window wait of a dispatch, the
\* other pool goes on: its next queued question can be started, a backend call of
\* its workers can return, its answer() can go on, and its queue thread can record
\* the result of a finished question (unless that pool has itself stopped on a
\* limit).
C35_WaitDoesNotBlockOtherPool ==
    \A q, r \in QIds :
        (PoolWaiting(q) /\ QueueOf(r) # QueueOf(q) /\ r \in pending[QueueOf(r)]) =>
            /\ (task[r].pc = "queued" /\ NextQueued(r)) => ENABLED TaskStart(r)
            /\ task[r].pc = "call" => ENABLED CallStep(r)
            /\ task[r].pc = "returned" => ENABLED Continue(r)
            /\ (task[r].pc = "done" /\ pool[QueueOf(r)].limit = None)
                  => (r \in pool[QueueOf(r)].processed \/ ENABLED Collect(QueueOf(r), r))

\* A worker of the small pool is inside the wait while a worker of the large pool has
\* a backend call in flight.
C35_Witness ==
    \E q, r \in QIds :
        /\ PoolWaiting(q) /\ QueueOf(q) = "small"
        /\ QueueOf(r) = "large" /\ task[r].by = "pool" /\ task[r].pc = "call"

(***************************************************************************)
(* Timeouts.  VNPTAPIClient.chat (vnpt_api_client.py 97-127) posts the     *)
(* request up to max_retries times; a request that times out is posted     *)
(* again after a sleep, and the last timeout raises "Timeout after 3       *)
(* retries for <model>", which the dispatcher finds to be neither a rate   *)
(* limit nor a server error (predict.py 183-185).  TimeoutSpec is run()    *)
(* against a backend whose requests either succeed or time out; with no    *)
(* rate-limit response no dispatch reaches one of its wait sites.          *)
(***************************************************************************)
\* max_retries = 3
max_retries == 3

\* requests.post timed out and another attempt is left (112-118).
ClientTimeout(q) ==
    /\ task[q].pc = "call"
    /\ client[q] < max_retries - 1
    /\ client' = [client EXCEPT ![q] = @ + 1]
    /\ UNCHANGED <<questions, skip_model, pending_queues, answer_cache, disk_cache, logs, task,
                   pool, sub_results, sub_remaining, pending, results, retry, final_results,
                   mpc, hist, cache_aux, extract, frame, route, persist>>

\* chat_text returns to the dispatcher: with a response (110), or with the exception
\* of line 120 when the last attempt timed out as well.
ClientReturn(q) ==
    /\ \/ Call(q, "ok")
       \/ client[q] = max_retries - 1 /\ Call(q, "unknown")
    /\ client' = [client EXCEPT ![q] = 0]
    /\ UNCHANGED <<hist, cache_aux, extract, frame, route, persist>>

TimeoutNext ==
    \/ RunStart
    \/ \E q \in QIds : TaskStart(q)
    \/ \E q \in QIds : ClientTimeout(q)
    \/ \E q \in QIds : ClientReturn(q)
    \/ \E q \in QIds : Continue(q)
    \/ \E m \in Tiers, q \in QIds : Collect(m, q)
    \/ \E m \in Tiers : PoolFinish(m)
    \/ Merge
    \/ MainWaitEnd
    \/ RetryWaitEnd
    \/ RetryNext
    \/ RetryCollect
    \/ Finalize

TimeoutSpec == Init /\ [][TimeoutNext]_vars

\* C36: a backend call that times out is posted at most 3 times by the client; the
\* timeout is handled as a transient error: it sets no exhausted flag and it leads
\* to no quota-window wait, neither in a dispatch nor in run().
C36_TimeoutIsTransient ==
    /\ \A q \in QIds : client[q] < max_retries
    /\ skip_model = NoSkip
    /\ \A q \in QIds : task[q].pc # "wait"
    /\ mpc \notin {"wait", "retry_wait"}

(***************************************************************************)
(* Batched persistence with many workers.  Which entries the cache holds   *)
(* does not matter here, only how many, so the cache and its file are      *)
(* kept as entry counts: mem = len(self.answer_cache), disk = the entries  *)
(* of the file, snap = len(cache_copy) of the save in progress.  The pool  *)
(* workers are counted by where they are in answer(): checking = between   *)
(* the insert (590) and the test of line 592, saving = at line 593 (in or  *)
(* waiting for _save_answer_cache); done = finished futures the queue      *)
(* thread has not taken yet.  The queue thread (qpc) saves after every     *)
(* result it takes (776).                                                  *)
(***************************************************************************)
\* The questions answered in the run observed.
MaxEntries == 12

PersistInit ==
    /\ questions = [q \in QIds |-> [qtype |-> "general", cannot |-> None, safe_idx |-> None]]
    /\ skip_model = NoSkip
    /\ pending_queues = [m \in Tiers |-> 0]
    /\ disk_cache = NoFile
    /\ answer_cache = load_answer_cache(disk_cache)
    /\ logs = <<>>
    /\ task = [q \in QIds |-> IdleTask]
    /\ pool = [m \in Tiers |-> IdlePool]
    /\ sub_results = [m \in Tiers |-> NoResults]
    /\ sub_remaining = [m \in Tiers |-> {}]
    /\ pending = [m \in Tiers |-> {}]
    /\ results = NoResults
    /\ retry = [list |-> <<>>, idx |-> 0, old |-> None]
    /\ final_results = <<>>
    /\ mpc = "persist"
    /\ hist = NoHist
    /\ old_store = NoFile
    /\ cache_lock = "free"
    /\ snapshot = EmptyCache
    /\ cache_op = None
    /\ extract = NoExtract
    /\ frame = NoFrame
    /\ route = NoRoute
    /\ client = NoClient
    /\ persist = NoPersist

PersistStep(p) ==
    /\ mpc = "persist"
    /\ persist' = p
    /\ UNCHANGED <<questions, skip_model, pending_queues, answer_cache, disk_cache, logs, task,
                   pool, sub_results, sub_remaining, pending, results, retry, final_results,
                   mpc, hist, cache_aux, extract, frame, route, client>>

\* line 590: a worker stores the entry of its question.
WorkerInsert ==
    /\ persist.mem < MaxEntries
    /\ PersistStep([persist EXCEPT !.mem = @ + 1, !.checking = @ + 1])

\* line 592: a worker that has inserted reads len(self.answer_cache); on a multiple
\* of 10 it goes on to save, otherwise answer() returns and its future is finished.
WorkerCheck ==
    /\ persist.checking > 0
    /\ PersistStep(IF persist.mem % SaveEvery = 0
                   THEN [persist EXCEPT !.checking = @ - 1, !.saving = @ + 1]
                   ELSE [persist EXCEPT !.checking = @ - 1, !.done = @ + 1])

\* lines 88-89: a worker at line 593 gets the lock and copies the cache.
WorkerSaveBegin ==
    /\ persist.saving > 0
    /\ persist.holder = None
    /\ PersistStep([persist EXCEPT !.holder = "worker", !.snap = persist.mem])

\* lines 766-776: the queue thread takes a finished future and goes on to save.
QueueTake ==
    /\ persist.qpc = "idle"
    /\ persist.done > 0
    /\ PersistStep([persist EXCEPT !.done = @ - 1, !.qpc = "save"])

\* lines 88-89: the queue thread gets the lock and copies the cache.
QueueSaveBegin ==
    /\ persist.qpc = "save"
    /\ persist.holder = None
    /\ PersistStep([persist EXCEPT !.holder = "queue", !.snap = persist.mem])

\* lines 95-96: the copy is written to the file and the lock released; a worker's
\* answer() then returns.
PersistSaveEnd ==
    /\ persist.holder # None
    /\ PersistStep(IF persist.holder = "worker"
                   THEN [persist EXCEPT !.disk = persist.snap, !.holder = None,
                                        !.saving = @ - 1, !.done = @ + 1]
                   ELSE [persist EXCEPT !.disk = persist.snap, !.holder = None,
                                        !.qpc = "idle"])

PersistNext ==
    \/ WorkerInsert
    \/ WorkerCheck
    \/ WorkerSaveBegin
    \/ QueueTake
    \/ QueueSaveBegin
    \/ PersistSaveEnd

PersistSpec == PersistInit /\ [][PersistNext]_vars

\* No worker is between its insert and the end of its save, and no save is running.
NoWorkerAtCache == persist.checking = 0 /\ persist.saving = 0 /\ persist.holder = None

\* C37: the entries of the in-memory cache that the file does not hold are at most 9
\* in every interleaving of the workers; here counted only in the states where every
\* worker that inserted an entry has tested the save condition and finished its save.
C37_BoundedUnsavedEntries ==
    (mpc = "persist" /\ NoWorkerAtCache) => persist.mem - persist.disk <= SaveEvery - 1

\* The dispatch of the re-attempt of q in the reconciliation pass has raised (outside
\* the reading tie-break, whose failure falls back on the first vote).
ReattemptFailed(q) ==
    /\ mpc = "retry"
    /\ task[q].by = "run"
    /\ task[q].pc = "returned"
    /\ task[q].ret.kind = "raise"
    /\ ~(questions[q].qtype = "reading" /\ task[q].di = 4)

\* C38: when the re-attempt of a flagged question fails, for a quota signal or for
\* any other error, the question keeps the answer it had before: answer() hands
\* run() no other answer, and what run() stores in results is the old answer.
C38_FailedReattemptKeepsOldAnswer ==
    [][\A q \in QIds :
          /\ (ReattemptFailed(q) /\ Continue(q) /\ task'[q].status = "success")
                => task'[q].answer = retry.old
          /\ (RetryCollect /\ q = RetryQ /\ task[q].status # "success")
                => results'[q] = retry.old]_vars

\* A dispatch of question q, processed by a pool worker, has ended with RateLimitError.
EndedRateLimited(q) ==
    /\ task[q].by = "pool"
    /\ task[q].pc = "returned"
    /\ task[q].ret.kind = "raise"
    /\ task[q].ret.exc = "RateLimitError"

\* C39: when a dispatch of a question ends with RateLimitError, answer() stores no
\* cache entry and appends no log entry for it, _process_single_question reports the
\* status small_limited, and the round puts no answer for it in its results, also
\* when earlier dispatches of the question had succeeded.
C39_RateLimitedLeavesNoTrace ==
    [][\A q \in QIds :
          /\ (EndedRateLimited(q) /\ Continue(q)) =>
                /\ answer_cache' = answer_cache
                /\ disk_cache' = disk_cache
                /\ logs' = logs
                /\ task'[q].status = "small_limited"
          /\ \A m \in Tiers :
                (Collect(m, q) /\ task[q].status = "small_limited") =>
                    pool'[m].results = pool[m].results /\ pool'[m].results[q] = None]_vars


\* C40: a dispatch entered with allow_fallback = False issues every backend call to
\* its preferred tier and returns no response of the other tier, for every sequence
\* of backend outcomes and every value of the flags at its entry.
C40_NoFallbackStaysOnPreferred ==
    (mpc = "dispatch" /\ ~task[1].allow) =>
        /\ \A i \in 1..Len(hist.events) :
              hist.events[i].kind = "call" => hist.events[i].tier = task[1].pref
        /\ (task[1].pc = "returned" /\ task[1].ret.kind = "ret")
              => task[1].ret.used = task[1].pref

====
